---- MODULE Spec2Model ----
(***************************************************************************)
(* A model of the decision logic of bob.devtools: the resolution of conda  *)
(* channels (ci/bootstrap.py, scripts/test.py, scripts/build.py), the      *)
(* stability classification of a build (bob/devtools/ci.py), the           *)
(* allocation of build numbers against the upload channel                  *)
(* (scripts/build.py), and the deployment commands and the nightlies       *)
(* pipeline (scripts/ci.py).                                               *)
(*                                                                         *)
(* A channel URL is the sequence of its "/"-separated parts, the server    *)
(* first: server + '/public/conda' is <<server, "public", "conda">>.       *)
(***************************************************************************)
EXTENDS Integers, Sequences, FiniteSets, TLC

VARIABLES
  environ,   \* os.environ: the variables the commands read and write
  last,      \* the last command run: its arguments and what it decided
  index,     \* the artifact store: upload channel -> set of published artifacts
  repo,      \* the git repository: commit graph, head of master, commit of the tag
  stab,      \* the last call of is_master / is_stable: its arguments and its result
  night,     \* the run of the nightlies command: its position in the loop and its files
  conda_bld, \* the files under $CONDA_ROOT/conda-bld, by architecture directory
  calls,     \* the deployments the last ci command issued, in order
  base,      \* the run of the base-build command: its order file and its loop
  dav,       \* the WebDAV server and the last dav command run on it
  doc        \* the run of the docs command: the packages it fetched

vars == <<environ, last, index, repo, stab, night, conda_bld, calls, base, dav, doc>>

\* Python's None
None == "None"

(***************************************************************************)
(* Sequences                                                               *)
(***************************************************************************)

Range(s) == {s[i] : i \in 1..Len(s)}

\* str.endswith, on the parts of a URL
EndsWith(url, suffix) ==
  /\ Len(url) >= Len(suffix)
  /\ SubSeq(url, Len(url) - Len(suffix) + 1, Len(url)) = suffix

(***************************************************************************)
(* Channel resolution                                                      *)
(***************************************************************************)

\* the value of SERVER (bob.devtools.constants), which the ci commands pass
SERVER == "http://www.idiap.ch"

\* an intranet-only server name, for the --server option
INTRANET_SERVER == "http://intranet.idiap.ch"

Servers == {SERVER, INTRANET_SERVER}

Groups == {"bob", "beat"}

Visibilities == {"public", "internal", "private"}

\* the platform-default fallback channel
defaults == <<"defaults">>

private_beta(server) == <<server, "private", "conda", "label", "beta">>
private_root(server) == <<server, "private", "conda">>
public_beta(server)  == <<server, "public", "conda", "label", "beta">>
public_root(server)  == <<server, "public", "conda">>

\* ci/bootstrap.py: get_local_channels(), reading os.environ
get_local_channels_swapped(env) ==
  LET public == env.CI_PROJECT_VISIBILITY = "public"
      stable == env.CI_COMMIT_TAG # None
      server == "http://www.idiap.ch"
      c0 == <<>>
      c1 == IF (~public) /\ stable THEN c0 \o <<private_beta(server)>> ELSE c0
      c2 == IF ~public THEN c1 \o <<private_root(server)>> ELSE c1
      c3 == IF stable THEN c2 \o <<public_beta(server)>> ELSE c2
      c4 == c3 \o <<public_root(server)>>
  IN  c4

get_local_channels_public_first(env) ==
  LET public == env.CI_PROJECT_VISIBILITY = "public"
      stable == env.CI_COMMIT_TAG # None
      server == "http://www.idiap.ch"
      c0 == <<>>
      c1 == IF ~stable THEN c0 \o <<public_beta(server)>> ELSE c0
      c2 == c1 \o <<public_root(server)>>
      c3 == IF (~public) /\ (~stable) THEN c2 \o <<private_beta(server)>> ELSE c2
      c4 == IF ~public THEN c3 \o <<private_root(server)>> ELSE c3
  IN  c4

get_local_channels(env) ==
  LET public == env.CI_PROJECT_VISIBILITY = "public"
      stable == env.CI_COMMIT_TAG # None
      server == "http://www.idiap.ch"
      c0 == <<>>
      c1 == IF (~public) /\ (~stable) THEN c0 \o <<private_beta(server)>> ELSE c0
      c2 == IF ~public THEN c1 \o <<private_root(server)>> ELSE c1
      c3 == IF ~stable THEN c2 \o <<public_beta(server)>> ELSE c2
      c4 == c3 \o <<public_root(server)>>
  IN  c4

\* step 5 of the resolver: the externally reachable form of a server
external_server(server) == IF server = INTRANET_SERVER THEN SERVER ELSE server

\* step 6 of the resolver: the auxiliary channels of a dependency group
dependent_channels(server, group) ==
  IF group = "beat" THEN << <<server, "software", "bob", "conda">> >> ELSE <<>>

\* bob.devtools.bootstrap.get_channels: the read channels and the upload channel
get_channels(public, stable, server, intranet, group, add_dependent_channels) ==
  LET host == IF intranet THEN server ELSE external_server(server)
      c0 == <<>>
      c1 == IF (~public) /\ (~stable) THEN c0 \o <<private_beta(host)>> ELSE c0
      c2 == IF ~public THEN c1 \o <<private_root(host)>> ELSE c1
      c3 == IF ~stable THEN c2 \o <<public_beta(host)>> ELSE c2
      c4 == c3 \o <<public_root(host)>>
      c5 == c4 \o <<defaults>>
      c6 == IF add_dependent_channels THEN c5 \o dependent_channels(host, group) ELSE c5
      upload == IF (~public) /\ (~stable) THEN private_beta(host)
                ELSE IF (~public) /\ stable THEN private_root(host)
                ELSE IF public /\ (~stable) THEN public_beta(host)
                ELSE public_root(host)
  IN  [channels |-> c6, upload_channel |-> upload]

\* the largest build number of the published artifacts
MaxBuild == 3

\* the largest number of artifacts published on one channel
MaxListing == 3

\* the name-version-pyXY prefixes of the artifact file names
Prefixes == {"pkg-1.0-py36", "pkg-1.0-py37"}

\* an artifact file: its name-version-pyXY prefix and its build number
Artifacts == [prefix : Prefixes, build : 0..MaxBuild]

\* what a command decided, as one record: its arguments, the channels it
\* configured conda with, the upload channel, the listing the allocator observed,
\* the build number, how it ended, and the value it left in BDT_BUILD; again and
\* previous tell that the command before it allocated for the same channel and
\* prefix, and the number it got
Decision(cmd, private, stable, server, intranet, group, condarc) ==
  [cmd |-> cmd, mode |-> None, private |-> private, stable |-> stable,
   server |-> server, intranet |-> intranet, group |-> group, condarc |-> condarc,
   dry_run |-> FALSE, prefix |-> None,
   channels |-> <<>>, upload_channel |-> <<>>,
   observed |-> {}, allocated |-> FALSE, build_number |-> 0,
   again |-> FALSE, previous |-> 0,
   outcome |-> "done", BDT_BUILD |-> <<>>]

NoDecision == Decision("none", FALSE, FALSE, SERVER, FALSE, "bob", None)

\* the channel lists a user's own conda configuration file may hold (--condarc)
CondarcFiles ==
  [empty |-> <<>>,
   forge |-> << <<"conda-forge">> >>]

CondarcOptions == {None} \cup DOMAIN CondarcFiles

\* get_local_channels(), applied to the environment of the job
GetLocalChannels ==
  /\ last' = [Decision("get_local_channels",
                       environ.CI_PROJECT_VISIBILITY # "public",
                       environ.CI_COMMIT_TAG # None,
                       "http://www.idiap.ch", TRUE, "bob", None)
               EXCEPT !.channels = get_local_channels(environ)]
  /\ UNCHANGED <<environ, index, repo, stab, night, conda_bld, calls, base, dav, doc>>

\* ci/bootstrap.py run as a script: the names baserc and write are bound nowhere
\* in the file, so the run ends at the first use of baserc, before any channel
\* is written to the conda configuration
BootstrapMain(mode) ==
  /\ last' = [Decision("bootstrap", FALSE, FALSE, SERVER, FALSE, "bob", None)
               EXCEPT !.mode = mode, !.outcome = "NameError"]
  /\ UNCHANGED <<environ, index, repo, stab, night, conda_bld, calls, base, dav, doc>>

test_channels_defaults_only(condarc, private, stable, server, ci, group) ==
  IF condarc # None THEN CondarcFiles[condarc] ELSE <<defaults>>

\* scripts/test.py: the channels of the conda configuration the tester runs with
test_channels(condarc, private, stable, server, ci, group) ==
  LET channels == get_channels(~private, stable, server, ci, group, FALSE).channels
  IN  IF condarc # None THEN CondarcFiles[condarc]
      ELSE channels \o <<defaults>>

\* scripts/test.py: test()
Test(condarc, server, group, private, stable, ci) ==
  /\ last' = [Decision("test", private, stable, server, ci, group, condarc)
               EXCEPT !.channels = test_channels(condarc, private, stable, server, ci, group)]
  /\ UNCHANGED <<environ, index, repo, stab, night, conda_bld, calls, base, dav, doc>>

(***************************************************************************)
(* Build numbers                                                           *)
(***************************************************************************)

\* the upload channels of the store
UploadChannels ==
  UNION {{private_beta(s), private_root(s), public_beta(s), public_root(s)} : s \in Servers}

\* the orders in which a channel may list its artifacts
RECURSIVE Listings(_)
Listings(S) ==
  IF S = {} THEN {<<>>}
  ELSE UNION {{<<x>> \o l : l \in Listings(S \ {x})} : x \in S}

Max(a, b) == IF a >= b THEN a ELSE b

\* the scan of a channel listing for the artifacts of the candidate's prefix
RECURSIVE scan_index(_, _, _)
scan_index(listing, prefix, build_number) ==
  IF listing = <<>> THEN build_number
  ELSE scan_index(Tail(listing), prefix,
                  IF Head(listing).prefix = prefix
                  THEN Max(build_number, Head(listing).build + 1)
                  ELSE build_number)

\* bob.devtools.build.next_build_number, on the listing of the channel
next_build_number(listing, basename) == scan_index(listing, basename.prefix, 0)

build_upload_channel_inverted(private, stable, server, ci, group) ==
  get_channels(~private, ~stable, server, ci, group, TRUE).upload_channel

build_upload_channel_public(private, stable, server, ci, group) ==
  get_channels(private, stable, server, ci, group, TRUE).upload_channel

build_upload_channel_root(private, stable, server, ci, group) ==
  get_channels(~private, TRUE, server, ci, group, TRUE).upload_channel

\* scripts/build.py: the upload channel the build command allocates against
build_upload_channel(private, stable, server, ci, group) ==
  get_channels(~private, stable, server, ci, group, TRUE).upload_channel

\* scripts/build.py: the channels the build command configures conda with
build_channels(private, stable, server, ci, group) ==
  get_channels(~private, stable, server, ci, group, TRUE).channels

Build_uploading(exists, skip, built, prefix, condarc, server, group, private, stable, dry_run, ci) ==
  LET upload_channel == build_upload_channel(private, stable, server, ci, group)
      build_number == CHOOSE n \in 0..(MaxBuild + 1) :
                        \A l \in Listings(index[upload_channel]) :
                          n = next_build_number(l, [prefix |-> prefix, build |-> 0])
      made == [prefix |-> prefix, build |-> build_number]
  IN  /\ exists /\ ~skip /\ built /\ ~dry_run
      /\ build_number <= MaxBuild
      /\ Cardinality(index[upload_channel]) < MaxListing
      /\ last' = [Decision("build", private, stable, server, ci, group, condarc)
                    EXCEPT !.dry_run = dry_run, !.prefix = prefix,
                           !.channels = build_channels(private, stable, server, ci, group),
                           !.upload_channel = upload_channel,
                           !.observed = index[upload_channel], !.allocated = TRUE,
                           !.build_number = build_number,
                           !.again = /\ last.cmd = "build" /\ last.allocated
                                     /\ last.upload_channel = upload_channel
                                     /\ last.prefix = prefix,
                           !.previous = last.build_number,
                           !.outcome = "built", !.BDT_BUILD = <<made>>]
      /\ index' = [index EXCEPT ![upload_channel] = @ \cup {made}]
      /\ UNCHANGED <<environ, repo, stab, night, conda_bld, calls, base, dav, doc>>

\* scripts/build.py: build(), for one recipe directory, run as a command of its
\* own: what it leaves in os.environ ends with its process and is kept in the
\* record.  exists: the recipe directory is there; skip: should_skip_build();
\* built: conda_build.api.build() returns
Build(exists, skip, built, prefix, condarc, server, group, private, stable, dry_run, ci) ==
  LET upload_channel == build_upload_channel(private, stable, server, ci, group)
      decided == [Decision("build", private, stable, server, ci, group, condarc)
                    EXCEPT !.dry_run = dry_run, !.prefix = prefix,
                           !.channels = build_channels(private, stable, server, ci, group),
                           !.upload_channel = upload_channel]
  IN  \/ /\ ~exists                      \* raise RuntimeError
         /\ last' = [decided EXCEPT !.outcome = "RuntimeError"]
         /\ UNCHANGED <<environ, index, repo, stab, night, conda_bld, calls, base, dav, doc>>
      \/ /\ exists /\ skip               \* continue
         /\ last' = [decided EXCEPT !.outcome = "skipped"]
         /\ UNCHANGED <<environ, index, repo, stab, night, conda_bld, calls, base, dav, doc>>
      \/ /\ exists /\ ~skip
         /\ \E listing \in Listings(index[upload_channel]) :
              LET build_number == next_build_number(listing, [prefix |-> prefix, build |-> 0])
                  made == [prefix |-> prefix, build |-> build_number]
                  again == /\ last.cmd = "build" /\ last.allocated
                           /\ last.upload_channel = upload_channel
                           /\ last.prefix = prefix
                  allocated == [decided EXCEPT !.observed = index[upload_channel],
                                               !.allocated = TRUE,
                                               !.build_number = build_number,
                                               !.again = again,
                                               !.previous = IF again THEN last.build_number
                                                            ELSE 0]
              IN  last' = IF dry_run THEN [allocated EXCEPT !.outcome = "dry-run"]
                          ELSE IF ~built  \* conda_build.api.build() raises
                          THEN [allocated EXCEPT !.outcome = "BuildError"]
                          ELSE [allocated EXCEPT !.outcome = "built",
                                                 !.BDT_BUILD = <<made>>]
         /\ UNCHANGED <<environ, index, repo, stab, night, conda_bld, calls, base, dav, doc>>

\* bob.devtools.deploy.deploy_conda_package: the channel an artifact is uploaded to
deploy_channel(stable, public) ==
  get_channels(public, stable, SERVER, TRUE, "bob", FALSE).upload_channel

\* scripts/ci.py: deploy(), finding one artifact of the package under conda-bld
Deploy(found, dry_run) ==
  LET stable == environ.CI_COMMIT_TAG # None
      public == environ.CI_PROJECT_VISIBILITY = "public"
      channel == deploy_channel(stable, public)
      decided == [Decision("deploy", ~public, stable, SERVER, TRUE, "bob", None)
                    EXCEPT !.dry_run = dry_run, !.upload_channel = channel]
  IN  \/ /\ dry_run
         /\ last' = [decided EXCEPT !.outcome = "dry-run"]
         /\ UNCHANGED <<environ, index, repo, stab, night, conda_bld, calls, base, dav, doc>>
      \/ /\ ~dry_run /\ found \in index[channel]      \* overwrite=False
         /\ last' = [decided EXCEPT !.outcome = "AlreadyExists"]
         /\ UNCHANGED <<environ, index, repo, stab, night, conda_bld, calls, base, dav, doc>>
      \/ /\ ~dry_run /\ found \notin index[channel]
         /\ Cardinality(index[channel]) < MaxListing
         /\ index' = [index EXCEPT ![channel] = @ \cup {found}]
         /\ last' = [decided EXCEPT !.outcome = "uploaded"]
         /\ UNCHANGED <<environ, repo, stab, night, conda_bld, calls, base, dav, doc>>

(***************************************************************************)
(* Stability classification                                                *)
(***************************************************************************)

\* the number of commits of the repository
NCommits == 3

\* the longest tag name
MaxTagLen == 3

Commits == 1..NCommits

\* the characters of a tag name: a lower-case letter, a digit, the dot, another
TagChars == {"v", "1", ".", "-"}

RECURSIVE SeqsUpTo(_, _)
SeqsUpTo(S, n) ==
  IF n = 0 THEN {<<>>}
  ELSE LET shorter == SeqsUpTo(S, n - 1)
       IN  shorter \cup {Append(s, x) : s \in {t \in shorter : Len(t) = n - 1}, x \in S}

\* a tag is None or a non-empty string
NoTag == <<None>>

Tags == SeqsUpTo(TagChars, MaxTagLen) \ {<<>>}

RefNames == {"master", "develop"}

\* a repository: every commit but the first has earlier commits as parents
Repos ==
  {r \in [parents : [Commits -> SUBSET Commits], master : Commits, tagged : Commits] :
     \A c \in Commits : /\ \A p \in r.parents[c] : p < c
                        /\ (c > 1 => r.parents[c] # {})}

\* the character classes of distutils.version.LooseVersion.component_re
CharClass(ch) ==
  IF ch \in {"0", "1", "2", "3", "4", "5", "6", "7", "8", "9"} THEN "digit"
  ELSE IF ch = "." THEN "dot"
  ELSE IF ch \in {"a", "b", "c", "r", "v"} THEN "lower"
  ELSE "other"

\* component_re.split(vstring): the matches (runs of digits, runs of lower-case
\* letters, single dots) and the text between them, in order
RECURSIVE split_components(_, _)
split_components(vstring, pieces) ==
  IF vstring = <<>> THEN pieces
  ELSE LET ch == Head(vstring)
           joins == /\ pieces # <<>>
                    /\ CharClass(ch) # "dot"
                    /\ pieces[Len(pieces)].class = CharClass(ch)
       IN  IF joins
           THEN split_components(Tail(vstring),
                  [pieces EXCEPT ![Len(pieces)].text = Append(@, ch)])
           ELSE split_components(Tail(vstring),
                  Append(pieces, [class |-> CharClass(ch), text |-> <<ch>>]))

\* LooseVersion(vstring): parse() runs only on a non-empty string; it drops the
\* dots and converts with int() every component int() accepts
LooseVersion(vstring) ==
  IF vstring = <<>> THEN [parsed |-> FALSE, version |-> <<>>]
  ELSE LET pieces == split_components(vstring, <<>>)
           kept == SelectSeq(pieces, LAMBDA x : x.class # "dot")
       IN  [parsed |-> TRUE,
            version |-> [i \in 1..Len(kept) |->
                           [type |-> IF kept[i].class = "digit" THEN "int" ELSE "str",
                            text |-> kept[i].text]]]

\* repo.iter_commits(rev='master'): the history of master, latest commit first
RECURSIVE iter_commits(_, _)
iter_commits(parents, pending) ==
  IF pending = {} THEN <<>>
  ELSE LET c == CHOOSE x \in pending : \A y \in pending : y <= x
       IN  <<c>> \o iter_commits(parents, (pending \ {c}) \cup parents[c])

\* bob/devtools/ci.py: is_master()
is_master_by_refname(refname, tag, repodir) == refname = "master"

is_master(refname, tag, repodir) ==
  IF tag # NoTag
  THEN repodir.tagged \in Range(iter_commits(repodir.parents, {repodir.master}))
  ELSE refname = "master"

\* bob/devtools/ci.py: is_stable(): what it returns or raises, and whether it
\* called is_master
is_stable_branch_first(package, refname, tag, repodir) ==
  IF tag # NoTag
  THEN LET v == LooseVersion(Tail(tag))
           is_prerelease == \E k \in 1..Len(v.version) : v.version[k].type = "str"
       IN  IF ~v.parsed
           THEN [ret |-> FALSE, error |-> "AttributeError", called_is_master |-> FALSE]
           ELSE IF ~is_master(refname, tag, repodir)
           THEN [ret |-> FALSE, error |-> None, called_is_master |-> TRUE]
           ELSE [ret |-> ~is_prerelease, error |-> None, called_is_master |-> TRUE]
  ELSE [ret |-> FALSE, error |-> None, called_is_master |-> FALSE]

is_stable_any_branch(package, refname, tag, repodir) ==
  IF tag # NoTag
  THEN LET v == LooseVersion(Tail(tag))
           is_prerelease == \E k \in 1..Len(v.version) : v.version[k].type = "str"
       IN  IF ~v.parsed
           THEN [ret |-> FALSE, error |-> "AttributeError", called_is_master |-> FALSE]
           ELSE IF is_prerelease
           THEN [ret |-> FALSE, error |-> None, called_is_master |-> FALSE]
           ELSE [ret |-> TRUE, error |-> None, called_is_master |-> FALSE]
  ELSE [ret |-> FALSE, error |-> None, called_is_master |-> FALSE]

is_stable(package, refname, tag, repodir) ==
  IF tag # NoTag
  THEN LET v == LooseVersion(Tail(tag))
           is_prerelease == \E k \in 1..Len(v.version) : v.version[k].type = "str"
       IN  IF ~v.parsed
           THEN [ret |-> FALSE, error |-> "AttributeError", called_is_master |-> FALSE]
           ELSE IF is_prerelease
           THEN [ret |-> FALSE, error |-> None, called_is_master |-> FALSE]
           ELSE IF is_master(refname, tag, repodir)
           THEN [ret |-> TRUE, error |-> None, called_is_master |-> TRUE]
           ELSE [ret |-> FALSE, error |-> None, called_is_master |-> TRUE]
  ELSE [ret |-> FALSE, error |-> None, called_is_master |-> FALSE]

NoCall ==
  [fn |-> "none", refname |-> "master", tag |-> NoTag,
   ret |-> FALSE, error |-> None, called_is_master |-> FALSE]

\* the arguments of a call, before it is made
Arguments(refname, tag) == [NoCall EXCEPT !.refname = refname, !.tag = tag]

\* a call of is_master on the arguments drawn
IsMaster ==
  /\ stab' = [fn |-> "is_master", refname |-> stab.refname, tag |-> stab.tag,
              ret |-> is_master(stab.refname, stab.tag, repo), error |-> None,
              called_is_master |-> FALSE]
  /\ UNCHANGED <<environ, last, index, repo, night, conda_bld, calls, base, dav, doc>>

\* a call of is_stable on the arguments drawn
IsStable(package) ==
  /\ LET r == is_stable(package, stab.refname, stab.tag, repo)
     IN  stab' = [fn |-> "is_stable", refname |-> stab.refname, tag |-> stab.tag,
                  ret |-> r.ret, error |-> r.error,
                  called_is_master |-> r.called_is_master]
  /\ UNCHANGED <<environ, last, index, repo, night, conda_bld, calls, base, dav, doc>>

(***************************************************************************)
(* Deployment                                                              *)
(*                                                                         *)
(* A file name is the sequence of its characters.                          *)
(***************************************************************************)

\* str.startswith
StartsWith(s, prefix) ==
  /\ Len(s) >= Len(prefix)
  /\ SubSeq(s, 1, Len(prefix)) = prefix

\* the architecture directories the deploy commands look into, in order
Archs == <<"linux-64", "osx-64", "noarch">>

\* the most files conda-bld holds
MaxFiles == 2

\* the names of the projects: the part of CI_PROJECT_PATH after the group
Names == {<<"p">>, <<"p", "q">>}

\* the base names of the files conda-bld may hold
Basenames == {<<"p", "-", "1">>, <<"p", "q", "-", "1">>, <<"z", "-", "1">>}

EmptyCondaBld == [arch \in Range(Archs) |-> {}]

CondaBlds ==
  {bld \in [Range(Archs) -> SUBSET Basenames] :
     Cardinality(bld["linux-64"]) + Cardinality(bld["osx-64"])
       + Cardinality(bld["noarch"]) <= MaxFiles}

\* glob.glob over the architecture directories in turn: a directory lists its
\* files in any order
glob(bld) ==
  LET found(arch) == {[i \in 1..Len(l) |-> [arch |-> arch, file |-> l[i]]] :
                        l \in Listings(bld[arch])}
  IN  {l1 \o l2 \o l3 : l1 \in found(Archs[1]), l2 \in found(Archs[2]),
                        l3 \in found(Archs[3])}

\* one deployment a command issues: a conda package, the documentation or a
\* python package; for the documentation, segments holds the destinations
Call(cmd, what, package) ==
  [cmd |-> cmd, what |-> what, package |-> package, arch |-> None,
   stable |-> FALSE, public |-> FALSE, latest |-> FALSE, overwrite |-> FALSE,
   dry_run |-> FALSE, segments |-> <<>>, outcome |-> "issued", n |-> 0]

\* the remote path of a file, under its channel: below the architecture given,
\* and with none given (arch=None) as the file itself tells
remote_path(package, arch) ==
  IF arch = None THEN package ELSE [arch |-> arch, file |-> package]

\* bob.devtools.deploy.deploy_conda_package: the store after the call and how
\* the call ends; a file that is on the channel is replaced only with overwrite
deploy_conda_package(idx, package, arch, stable, public, overwrite, dry_run) ==
  LET channel == deploy_channel(stable, public)
      path == remote_path(package, arch)
  IN  IF dry_run THEN [index |-> idx, outcome |-> "dry-run"]
      ELSE IF path \in idx[channel]
      THEN IF overwrite THEN [index |-> idx, outcome |-> "replaced"]
           ELSE [index |-> idx, outcome |-> "AlreadyExists"]
      ELSE [index |-> [idx EXCEPT ![channel] = @ \cup {path}],
            outcome |-> "uploaded"]

\* the calls of a loop over the files found, in order: a call that is refused
\* raises and ends the command
RECURSIVE deploy_each(_, _, _)
deploy_each(idx, todo, made) ==
  IF todo = <<>> THEN [index |-> idx, calls |-> made, raised |-> FALSE]
  ELSE LET k == Head(todo)
           r == deploy_conda_package(idx, k.package, k.arch, k.stable, k.public,
                                     k.overwrite, k.dry_run)
           done == Append(made, [k EXCEPT !.outcome = r.outcome])
       IN  IF r.outcome = "AlreadyExists"
           THEN [index |-> r.index, calls |-> done, raised |-> TRUE]
           ELSE deploy_each(r.index, Tail(todo), done)

\* scripts/ci.py: base_deploy(), the calls of its loop over the files found
base_deploy_calls_own_only(name, found, dry_run) ==
  LET kept == SelectSeq(found, LAMBDA k : StartsWith(k.file, name))
  IN  [i \in 1..Len(kept) |->
         [Call("base-deploy", "conda", kept[i].file)
            EXCEPT !.arch = kept[i].arch, !.stable = TRUE, !.public = TRUE,
                   !.overwrite = FALSE, !.dry_run = dry_run]]

base_deploy_calls(name, found, dry_run) ==
  LET kept == SelectSeq(found, LAMBDA k : ~StartsWith(k.file, name))
  IN  [i \in 1..Len(kept) |->
         [Call("base-deploy", "conda", kept[i].file)
            EXCEPT !.arch = kept[i].arch, !.stable = TRUE, !.public = TRUE,
                   !.overwrite = FALSE, !.dry_run = dry_run]]

\* scripts/ci.py: base_deploy()
BaseDeploy(dry_run) ==
  \E found \in glob(conda_bld) :
    LET name == environ.CI_PROJECT_PATH
        r == deploy_each(index, base_deploy_calls(name, found, dry_run), <<>>)
    IN  /\ index' = r.index
        /\ calls' = r.calls
        /\ last' = [Decision("base-deploy", FALSE, TRUE, SERVER, TRUE, "bob", None)
                      EXCEPT !.dry_run = dry_run,
                             !.upload_channel = deploy_channel(TRUE, TRUE),
                             !.outcome = IF r.raised THEN "RuntimeError" ELSE "done"]
        /\ UNCHANGED <<environ, repo, stab, night, conda_bld, base, dav, doc>>

\* scripts/ci.py: deploy(), the calls of its loop over the files its pattern
\* name + '*.tar.bz2' finds
deploy_calls_overwriting(name, found, stable, public, dry_run) ==
  LET kept == SelectSeq(found, LAMBDA k : StartsWith(k.file, name))
  IN  [i \in 1..Len(kept) |->
         [Call("deploy", "conda", kept[i].file)
            EXCEPT !.arch = kept[i].arch, !.stable = stable, !.public = public,
                   !.overwrite = TRUE, !.dry_run = dry_run]]

deploy_calls(name, found, stable, public, dry_run) ==
  LET kept == SelectSeq(found, LAMBDA k : StartsWith(k.file, name))
  IN  [i \in 1..Len(kept) |->
         [Call("deploy", "conda", kept[i].file)
            EXCEPT !.arch = kept[i].arch, !.stable = stable, !.public = public,
                   !.overwrite = FALSE, !.dry_run = dry_run]]

\* bob.devtools.deploy.deploy_documentation: the path segments the
\* documentation is published to
deploy_documentation(stable, latest, branch, tag) ==
  IF stable
  THEN <<branch, tag>> \o (IF latest THEN <<"stable", "master">> ELSE <<>>)
  ELSE <<branch>>

\* scripts/ci.py: deploy(), its call of deploy_documentation
deploy_documentation_call_always_latest(env, latest, dry_run) ==
  LET stable == env.CI_COMMIT_TAG # None
      public == env.CI_PROJECT_VISIBILITY = "public"
  IN  [Call("deploy", "docs", env.CI_PROJECT_PATH)
         EXCEPT !.stable = stable, !.public = public, !.latest = latest,
                !.dry_run = dry_run,
                !.segments = deploy_documentation(stable, TRUE,
                               env.CI_COMMIT_REF_NAME, env.CI_COMMIT_TAG),
                !.outcome = IF dry_run THEN "dry-run" ELSE "uploaded"]

deploy_documentation_call(env, latest, dry_run) ==
  LET stable == env.CI_COMMIT_TAG # None
      public == env.CI_PROJECT_VISIBILITY = "public"
  IN  [Call("deploy", "docs", env.CI_PROJECT_PATH)
         EXCEPT !.stable = stable, !.public = public, !.latest = latest,
                !.dry_run = dry_run,
                !.segments = deploy_documentation(stable, latest,
                               env.CI_COMMIT_REF_NAME, env.CI_COMMIT_TAG),
                !.outcome = IF dry_run THEN "dry-run" ELSE "uploaded"]

\* scripts/ci.py: deploy(), the whole command: the conda packages of the
\* project found under conda-bld, then the documentation
CiDeploy(latest, dry_run) ==
  \E found \in glob(conda_bld) :
    LET name == environ.CI_PROJECT_PATH
        stable == environ.CI_COMMIT_TAG # None
        public == environ.CI_PROJECT_VISIBILITY = "public"
        r == deploy_each(index, deploy_calls(name, found, stable, public, dry_run), <<>>)
    IN  /\ index' = r.index
        /\ calls' = IF r.raised THEN r.calls
                    ELSE Append(r.calls, deploy_documentation_call(environ, latest, dry_run))
        /\ last' = [Decision("deploy", ~public, stable, SERVER, TRUE, "bob", None)
                      EXCEPT !.dry_run = dry_run,
                             !.upload_channel = deploy_channel(stable, public),
                             !.outcome = IF r.raised THEN "RuntimeError" ELSE "done"]
        /\ UNCHANGED <<environ, repo, stab, night, conda_bld, base, dav, doc>>

\* scripts/ci.py: pypi(): whether it raises, and the uploads it makes
pypi_check_after_upload(public, package, dry_run) ==
  [raised |-> ~public,
   uploads |-> IF ~dry_run
               THEN [i \in 1..Len(package) |->
                       [Call("pypi", "pypi", package[i])
                          EXCEPT !.public = public, !.outcome = "uploaded"]]
               ELSE <<>>]

pypi(public, package, dry_run) ==
  IF ~public THEN [raised |-> TRUE, uploads |-> <<>>]
  ELSE [raised |-> FALSE,
        uploads |-> IF ~dry_run
                    THEN [i \in 1..Len(package) |->
                            [Call("pypi", "pypi", package[i])
                               EXCEPT !.public = public, !.outcome = "uploaded"]]
                    ELSE <<>>]

\* the lists of python packages the pypi command is given
Dists == {<< <<"a">> >>, << <<"a">>, <<"b">> >>}

\* scripts/ci.py: pypi(), the command
PyPI(package, dry_run) ==
  LET public == environ.CI_PROJECT_VISIBILITY = "public"
      r == pypi(public, package, dry_run)
  IN  /\ calls' = r.uploads
      /\ last' = [Decision("pypi", ~public, FALSE, SERVER, TRUE, "bob", None)
                    EXCEPT !.dry_run = dry_run,
                           !.outcome = IF r.raised THEN "RuntimeError" ELSE "done"]
      /\ UNCHANGED <<environ, index, repo, stab, night, conda_bld, base, dav, doc>>

(***************************************************************************)
(* The nightlies pipeline                                                  *)
(*                                                                         *)
(* The command runs in one process: what build() leaves in os.environ is   *)
(* what the loop reads after it.  The loop passes build() the keyword      *)
(* use_local, which the build() of scripts/build.py does not declare; the  *)
(* field accepts_use_local of a run tells whether the build command the    *)
(* loop is bound to takes it.                                              *)
(***************************************************************************)

\* the number of packages the order file lists
NPackages == 2

\* the number of runs of the command, one after the other
MaxRuns == 2

\* the packages of the order file, in order, and the name-version-pyXY prefix
\* of the artifact the recipe of each renders to
PackageTable == <<"bob/a", "bob/b", "bob/c">>
RecipePrefixes == <<"a-1.0-py36", "b-1.0-py36", "c-1.0-py36">>

\* read_packages(order)
Order == SubSeq(PackageTable, 1, NPackages)

\* the packages gitlab does not show to everyone
PrivatePackages == {"bob/b"}

\* the status urlopen returns with: 200, or another status of success for the
\* projects gitlab does not show to everyone
page_status(package) == IF package \in PrivatePackages THEN 204 ELSE 200

recipe_prefix(package) ==
  RecipePrefixes[CHOOSE i \in 1..Len(PackageTable) : PackageTable[i] = package]

\* a run of the command before its first iteration.  steps: the steps begun,
\* each with the iteration it belongs to; errors: the errors raised; recipes:
\* for each iteration that came to its build, whether its recipe directory was
\* there; built: for each iteration whose build returned, the artifact it made,
\* if any; docs: the iterations whose build wrote documentation; responses: the
\* status the project page of each iteration answered with; passed: the
\* visibility and the stability each call of build() was given; allocated: the
\* upload channel each build allocated its build number against
Run(packages, dry_run, accepts_use_local, sphinx) ==
  [run |-> 1, pc |-> IF packages = <<>> THEN "done" ELSE "clone", n |-> 1,
   packages |-> packages, dry_run |-> dry_run,
   accepts_use_local |-> accepts_use_local, private |-> FALSE,
   sphinx |-> sphinx, steps |-> <<>>, errors |-> <<>>, recipes |-> <<>>,
   built |-> <<>>, docs |-> {}, responses |-> <<>>, passed |-> <<>>,
   allocated |-> <<>>]

\* the step of the current iteration, begun
Begin(run, step) == [run EXCEPT !.steps = Append(@, [n |-> run.n, step |-> step])]

\* an exception no handler of the loop catches: the command ends
Raise(run, step, error) ==
  [run EXCEPT !.pc = "failed",
              !.errors = Append(@, [n |-> run.n, step |-> step, error |-> error])]

\* scripts/ci.py: nightlies(), run again once a run is over: a new process with
\* the environment of its job
NightliesStart(env, dry_run) ==
  /\ night.pc \in {"done", "failed"}
  /\ night.run < MaxRuns
  /\ night' = [Run(night.packages, dry_run, night.accepts_use_local, FALSE)
                 EXCEPT !.run = night.run + 1]
  /\ environ' = env
  /\ calls' = <<>>
  /\ UNCHANGED <<last, index, repo, stab, conda_bld, base, dav, doc>>

\* scripts/ci.py: nightlies(), the head of the loop and git.Repo.clone_from
NightliesClone_continuing ==
  /\ night.pc = "clone"
  /\ \/ night' = [Begin(night, "clone") EXCEPT !.pc = "build"]
     \/ night' = [Raise(Begin(night, "clone"), "clone", "GitCommandError")
                    EXCEPT !.pc = IF night.n < Len(night.packages) THEN "clone" ELSE "done",
                           !.n = IF night.n < Len(night.packages) THEN night.n + 1 ELSE night.n]
  /\ UNCHANGED <<environ, last, index, repo, stab, conda_bld, calls, base, dav, doc>>

NightliesClone ==
  /\ night.pc = "clone"
  /\ \/ night' = [Begin(night, "clone") EXCEPT !.pc = "build"]
     \/ night' = Raise(Begin(night, "clone"), "clone", "GitCommandError")
  /\ UNCHANGED <<environ, last, index, repo, stab, conda_bld, calls, base, dav, doc>>

\* scripts/build.py: build(), what becomes of a recipe directory before anything
\* is built
recipe_outcome_skipping_absent(exists, skip) ==
  IF ~exists THEN "skipped"
  ELSE IF skip THEN "skipped"
  ELSE "build"

recipe_outcome(exists, skip) ==
  IF ~exists THEN "RuntimeError"
  ELSE IF skip THEN "skipped"
  ELSE "build"

\* scripts/ci.py: nightlies(), from the visibility of the package to the return
\* of build(), with scripts/build.py: build() run in the process of the loop.
\* answer: "none" when the server does not answer, "error" when it answers
\* with an error status, for which urlopen raises, and "page" when urlopen
\* returns; exists: the recipe directory is there; skip: should_skip_build();
\* built: conda_build.api.build() returns; sphinx: the build writes the
\* documentation of the package
NightliesBuild(answer, exists, skip, built, sphinx) ==
  /\ night.pc = "build"
  /\ LET stable == environ.STABLE # None
         package == night.packages[night.n]
         private == page_status(package) # 200     \* getcode() != 200
         group == "bob"
         reachable == answer = "page"
         called == [Begin(night, "build")
                      EXCEPT !.private = private,
                             !.responses = Append(@, page_status(package)),
                             !.passed = Append(@, [n |-> night.n, private |-> private,
                                                   stable |-> stable])]
         begun == [called EXCEPT !.recipes = Append(@, exists)]
         upload_channel == build_upload_channel(private, stable, SERVER, TRUE, group)
         alloc == [begun EXCEPT !.allocated = Append(@, [n |-> night.n,
                                                         channel |-> upload_channel])]
     IN  \/ /\ answer = "none"                     \* urlopen raises
            /\ night' = Raise(Begin(night, "build"), "build", "URLError")
            /\ UNCHANGED environ
         \/ /\ answer = "error"                    \* urlopen raises
            /\ night' = Raise([Begin(night, "build")
                                 EXCEPT !.responses = Append(@, 404)],
                              "build", "HTTPError")
            /\ UNCHANGED environ
         \/ /\ reachable /\ ~night.accepts_use_local  \* build() got an unexpected keyword
            /\ night' = Raise(called, "build", "TypeError")
            /\ UNCHANGED environ
         \/ /\ reachable /\ night.accepts_use_local
            /\ recipe_outcome(exists, skip) = "RuntimeError"
            /\ night' = Raise(begun, "build", "RuntimeError")
            /\ UNCHANGED environ
         \/ /\ reachable /\ night.accepts_use_local
            /\ recipe_outcome(exists, skip) = "skipped"            \* continue
            /\ night' = [begun EXCEPT !.pc = "deploy", !.built = Append(@, <<>>)]
            /\ UNCHANGED environ
         \/ /\ reachable /\ night.accepts_use_local
            /\ recipe_outcome(exists, skip) = "build"
            /\ \E listing \in Listings(index[upload_channel]) :
                 LET basename == [prefix |-> recipe_prefix(package), build |-> 0]
                     build_number == next_build_number(listing, basename)
                     made == [prefix |-> recipe_prefix(package), build |-> build_number]
                 IN  /\ build_number <= MaxBuild
                     /\ IF night.dry_run
                        THEN /\ night' = [alloc EXCEPT !.pc = "deploy",
                                                       !.built = Append(@, <<>>)]
                             /\ UNCHANGED environ
                        ELSE IF ~built
                        THEN /\ night' = Raise([alloc EXCEPT !.sphinx = @ \/ sphinx,
                                                             !.docs = IF sphinx THEN @ \cup {night.n} ELSE @],
                                               "build", "BuildError")
                             /\ UNCHANGED environ
                        ELSE /\ night' = [alloc EXCEPT !.pc = "deploy",
                                                       !.sphinx = @ \/ sphinx,
                                                       !.docs = IF sphinx THEN @ \cup {night.n} ELSE @,
                                                       !.built = Append(@, <<made>>)]
                             /\ environ' = [environ EXCEPT !.BDT_BUILD = <<made>>]
  /\ UNCHANGED <<last, index, repo, stab, conda_bld, calls, base, dav, doc>>

\* scripts/ci.py: nightlies(), its call of deploy_conda_package
nightlies_deploy_call_private_as_public(tarball, stable, private, dry_run, n) ==
  [Call("nightlies", "conda", tarball)
     EXCEPT !.arch = None, !.stable = stable, !.public = private,
            !.overwrite = FALSE, !.dry_run = dry_run, !.n = n]

nightlies_deploy_call(tarball, stable, private, dry_run, n) ==
  [Call("nightlies", "conda", tarball)
     EXCEPT !.arch = None, !.stable = stable, !.public = ~private,
            !.overwrite = FALSE, !.dry_run = dry_run, !.n = n]

\* scripts/ci.py: nightlies(), the deployment of what the build left in
\* BDT_BUILD.  served: the server takes the request
NightliesDeploy_keeping(served) ==
  /\ night.pc = "deploy"
  /\ LET master == environ.CI_COMMIT_REF_NAME = "master"
         stable == environ.STABLE # None
         tarball == environ.BDT_BUILD[1]
         k == nightlies_deploy_call(tarball, stable, night.private, night.dry_run, night.n)
         r == deploy_conda_package(index, k.package, k.arch, k.stable, k.public,
                                   k.overwrite, k.dry_run)
     IN  \/ /\ environ.BDT_BUILD # <<>> /\ master /\ served
            /\ index' = r.index
            /\ calls' = Append(calls, [k EXCEPT !.outcome = r.outcome])
            /\ night' = IF r.outcome = "AlreadyExists"
                        THEN Raise(Begin(night, "deploy"), "deploy", "RuntimeError")
                        ELSE [Begin(night, "deploy") EXCEPT !.pc = "cleanup"]
         \/ /\ environ.BDT_BUILD # <<>> /\ master /\ ~served
            /\ calls' = Append(calls, [k EXCEPT !.outcome = "error"])
            /\ night' = Raise(Begin(night, "deploy"), "deploy", "ConnectionError")
            /\ UNCHANGED index
         \/ /\ ~(environ.BDT_BUILD # <<>> /\ master)
            /\ night' = [night EXCEPT !.pc = "cleanup"]
            /\ UNCHANGED <<index, calls>>
  /\ UNCHANGED <<environ, last, repo, stab, conda_bld, base, dav, doc>>

NightliesDeploy(served) ==
  /\ night.pc = "deploy"
  /\ LET master == environ.CI_COMMIT_REF_NAME = "master"
         stable == environ.STABLE # None
         tarball == environ.BDT_BUILD[1]
         k == nightlies_deploy_call(tarball, stable, night.private, night.dry_run, night.n)
         r == deploy_conda_package(index, k.package, k.arch, k.stable, k.public,
                                   k.overwrite, k.dry_run)
     IN  \/ /\ environ.BDT_BUILD # <<>> /\ master /\ served
            /\ environ' = [environ EXCEPT !.BDT_BUILD = <<>>]
            /\ index' = r.index
            /\ calls' = Append(calls, [k EXCEPT !.outcome = r.outcome])
            /\ night' = IF r.outcome = "AlreadyExists"
                        THEN Raise(Begin(night, "deploy"), "deploy", "RuntimeError")
                        ELSE [Begin(night, "deploy") EXCEPT !.pc = "cleanup"]
         \/ /\ environ.BDT_BUILD # <<>> /\ master /\ ~served
            /\ environ' = [environ EXCEPT !.BDT_BUILD = <<>>]
            /\ calls' = Append(calls, [k EXCEPT !.outcome = "error"])
            /\ night' = Raise(Begin(night, "deploy"), "deploy", "ConnectionError")
            /\ UNCHANGED index
         \/ /\ ~(environ.BDT_BUILD # <<>> /\ master)
            /\ night' = [night EXCEPT !.pc = "cleanup"]
            /\ UNCHANGED <<environ, index, calls>>
  /\ UNCHANGED <<last, repo, stab, conda_bld, base, dav, doc>>

\* scripts/ci.py: nightlies(), the removal of the documentation and the step to
\* the next package
NightliesCleanup_ending ==
  /\ night.pc = "cleanup"
  /\ night' = [Begin(night, "cleanup") EXCEPT !.sphinx = FALSE, !.pc = "done"]
  /\ UNCHANGED <<environ, last, index, repo, stab, conda_bld, calls, base, dav, doc>>

NightliesCleanup_keeping ==
  /\ night.pc = "cleanup"
  /\ night' = [Begin(night, "cleanup")
                 EXCEPT !.pc = IF night.n < Len(night.packages) THEN "clone" ELSE "done",
                            !.n = IF night.n < Len(night.packages) THEN night.n + 1
                                  ELSE night.n]
  /\ UNCHANGED <<environ, last, index, repo, stab, conda_bld, calls, base, dav, doc>>

NightliesCleanup ==
  /\ night.pc = "cleanup"
  /\ night' = [Begin(night, "cleanup")
                 EXCEPT !.sphinx = FALSE,
                            !.pc = IF night.n < Len(night.packages) THEN "clone" ELSE "done",
                            !.n = IF night.n < Len(night.packages) THEN night.n + 1
                                  ELSE night.n]
  /\ UNCHANGED <<environ, last, index, repo, stab, conda_bld, calls, base, dav, doc>>

(***************************************************************************)
(* Order files and the base-build command                                  *)
(*                                                                         *)
(* An order file is the sequence of its characters.                        *)
(***************************************************************************)

\* the most characters an order file holds
MaxOrderLen == 5

\* the characters of an order file: a letter, the comment sign, the blank and
\* the end of line
OrderChars == {"a", "#", " ", "\n"}

OrderFiles == SeqsUpTo(OrderChars, MaxOrderLen)

\* the characters str.strip() removes
Whitespace == {" ", "\n"}

\* for line in f: the lines of a file, each with its end of line
RECURSIVE readlines(_, _)
readlines(text, line) ==
  IF text = <<>> THEN (IF line = <<>> THEN <<>> ELSE <<line>>)
  ELSE IF Head(text) = "\n" THEN <<Append(line, "\n")>> \o readlines(Tail(text), <<>>)
  ELSE readlines(Tail(text), Append(line, Head(text)))

\* str.partition(sep)[0]: the text before the first sep
RECURSIVE partition(_, _)
partition(s, sep) ==
  IF s = <<>> THEN <<>>
  ELSE IF Head(s) = sep THEN <<>>
  ELSE <<Head(s)>> \o partition(Tail(s), sep)

RECURSIVE lstrip(_)
lstrip(s) ==
  IF s # <<>> /\ Head(s) \in Whitespace THEN lstrip(Tail(s)) ELSE s

RECURSIVE rstrip(_)
rstrip(s) ==
  IF s # <<>> /\ s[Len(s)] \in Whitespace THEN rstrip(SubSeq(s, 1, Len(s) - 1)) ELSE s

\* str.strip()
strip(s) == rstrip(lstrip(s))

\* scripts/ci.py: base_build(), the loading of the order file
RECURSIVE load_recipes_keeping_comments(_)
load_recipes_keeping_comments(lines) ==
  IF lines = <<>> THEN <<>>
  ELSE LET line == strip(Head(lines))
       IN  (IF line # <<>> THEN <<line>> ELSE <<>>)
             \o load_recipes_keeping_comments(Tail(lines))

RECURSIVE load_recipes(_)
load_recipes(lines) ==
  IF lines = <<>> THEN <<>>
  ELSE LET line == strip(partition(Head(lines), "#"))
       IN  (IF line # <<>> THEN <<line>> ELSE <<>>) \o load_recipes(Tail(lines))

\* bob.devtools.ci.read_packages: the entries of an order file, read as
\* base_build() reads them; the branch an entry may name is left out
read_packages(text) == load_recipes(readlines(text, <<>>))

\* the values of the option --python, given any number of times
PythonOptions == {<<>>, <<"3.6">>, <<"3.6", "3.7">>}

\* the recipe directories that hold a meta.yaml
MetaOptions == {{}, {<<"a">>}, {<<"a">>, <<"a", "a">>}}

\* itertools.product(python, recipes): the first varies slowest
product(python, recipes) ==
  [k \in 1..(Len(python) * Len(recipes)) |->
     [pyver |-> python[((k - 1) \div Len(recipes)) + 1],
      recipe |-> recipes[((k - 1) % Len(recipes)) + 1]]]

\* a run of the command before it reads its order file.  entries: the recipes
\* read; recipes: the (python, recipe) pairs of the loop; i: the pair the loop
\* is at; invoked: the pairs the builder was called for, in order; ignored: the
\* pairs passed over
BaseRun(order, python, meta, dry_run) ==
  [pc |-> "read", order |-> order, python |-> python, meta |-> meta,
   dry_run |-> dry_run, entries |-> <<>>, recipes |-> <<>>, i |-> 1,
   invoked |-> <<>>, ignored |-> <<>>, error |-> None]

NoBase == [BaseRun(<<>>, <<>>, {}, FALSE) EXCEPT !.pc = "none"]

\* scripts/ci.py: base_build(), up to its loop
BaseBuildLoad ==
  /\ base.pc = "read"
  /\ LET recipes == load_recipes(readlines(base.order, <<>>))
         pairs == IF base.python # <<>> THEN product(base.python, recipes)
                  ELSE product(<<None>>, recipes)
     IN  base' = [base EXCEPT !.entries = recipes, !.recipes = pairs,
                              !.pc = IF pairs = <<>> THEN "done" ELSE "loop"]
  /\ UNCHANGED <<environ, last, index, repo, stab, night, conda_bld, calls, dav, doc>>

\* scripts/ci.py: base_build(), one pair of its loop.  ok: the builder returns
BaseBuildPair_building_all(ok) ==
  /\ base.pc = "loop"
  /\ LET pair == base.recipes[base.i]
         has_meta == pair.recipe \in base.meta
         next == [base EXCEPT !.i = @ + 1,
                              !.pc = IF base.i < Len(base.recipes) THEN "loop" ELSE "done"]
     IN  \/ /\ ~has_meta
            /\ base' = [next EXCEPT !.invoked = Append(@, pair)]
         \/ /\ has_meta /\ ok
            /\ base' = [next EXCEPT !.invoked = Append(@, pair)]
         \/ /\ has_meta /\ ~ok
            /\ base' = [base EXCEPT !.invoked = Append(@, pair), !.pc = "failed",
                                    !.error = "BuildError"]
  /\ UNCHANGED <<environ, last, index, repo, stab, night, conda_bld, calls, dav, doc>>

BaseBuildPair(ok) ==
  /\ base.pc = "loop"
  /\ LET pair == base.recipes[base.i]
         has_meta == pair.recipe \in base.meta     \* os.path.exists(.../meta.yaml)
         next == [base EXCEPT !.i = @ + 1,
                              !.pc = IF base.i < Len(base.recipes) THEN "loop" ELSE "done"]
     IN  \/ /\ ~has_meta                             \* continue
            /\ base' = [next EXCEPT !.ignored = Append(@, pair)]
         \/ /\ has_meta /\ ok                        \* _build(...) returns
            /\ base' = [next EXCEPT !.invoked = Append(@, pair)]
         \/ /\ has_meta /\ ~ok                       \* _build(...) raises
            /\ base' = [base EXCEPT !.invoked = Append(@, pair), !.pc = "failed",
                                    !.error = "BuildError"]
  /\ UNCHANGED <<environ, last, index, repo, stab, night, conda_bld, calls, dav, doc>>

(***************************************************************************)
(* The dav commands                                                        *)
(*                                                                         *)
(* A remote path is given as the sequence of its characters.  The server   *)
(* holds resources, each the sequence of the names on its path; the root   *)
(* is the empty sequence and is always there.                              *)
(***************************************************************************)

\* str.split('/'), without the empty names
RECURSIVE path_names(_, _)
path_names(path, name) ==
  IF path = <<>> THEN (IF name = <<>> THEN <<>> ELSE <<name>>)
  ELSE IF Head(path) = "/"
  THEN (IF name = <<>> THEN <<>> ELSE <<name>>) \o path_names(Tail(path), <<>>)
  ELSE path_names(Tail(path), Append(name, Head(path)))

\* if not path.startswith('/'): path = '/' + path
absolute(path) == IF StartsWith(path, <<"/">>) THEN path ELSE <<"/">> \o path

\* cl.check(path): the resource is on the server
check(server, path) == path_names(path, <<>>) \in server

IsPrefix(p, q) == Len(p) <= Len(q) /\ SubSeq(q, 1, Len(p)) = p

\* cl.clean(path): the resource and all below it are removed
clean(server, path) ==
  {r \in server : ~IsPrefix(path_names(path, <<>>), r)} \cup {<<>>}

\* cl.upload_file / cl.upload_directory: the resource is created
upload_to(server, path) == server \cup {path_names(path, <<>>)}

\* the number of dav commands run on the server, one after the other
MaxCommands == 2

\* the remote paths the rmtree command is given
RmtreePaths == {<<"/">>, <<"d">>, <<"/", "f">>, <<"/", "d", "/", "f">>}

\* the remote locations the upload command is given
UploadRemotes == {<<"/">>, <<"d">>, <<"/", "d", "/">>}

\* what the two areas of the server may hold
DavAreas ==
  {{<<>>},
   {<<>>, << <<"f">> >>},
   {<<>>, << <<"d">> >>},
   {<<>>, << <<"d">> >>, << <<"d">>, <<"f">> >>},
   {<<>>, << <<"d">> >>, << <<"d", "f">> >>}}

\* the local resources the upload command is given: the base name of each and
\* whether it is a directory
LocalResources ==
  {<<[name |-> <<"f">>, isdir |-> FALSE]>>,
   <<[name |-> <<"f">>, isdir |-> FALSE], [name |-> <<"d">>, isdir |-> TRUE]>>}

\* the server and the last command run on it.  before: what the area held when
\* the command began; requests: the changes the command asked the server for;
\* refused: the local resources the command did not upload because the server
\* holds a resource of their name; count: the commands run so far
Dav(server, count) ==
  [server |-> server, count |-> count, cmd |-> "none", private |-> FALSE, execute |-> FALSE,
   path |-> <<>>, local |-> <<>>, before |-> {<<>>}, requests |-> <<>>,
   refused |-> <<>>, outcome |-> "done"]

NoDav == Dav([private \in BOOLEAN |-> {<<>>}], 0)

\* scripts/dav.py: rmtree()
rmtree_unconditional(server, execute, path) ==
  IF ~check(server, path)
  THEN [server |-> server, requests |-> <<>>, outcome |-> "does not exist"]
  ELSE [server |-> clean(server, path),
        requests |-> <<[op |-> "clean", path |-> path]>>, outcome |-> "done"]

rmtree(server, execute, path) ==
  IF ~check(server, path)
  THEN [server |-> server, requests |-> <<>>, outcome |-> "does not exist"]
  ELSE IF execute
  THEN [server |-> clean(server, path),
        requests |-> <<[op |-> "clean", path |-> path]>>, outcome |-> "done"]
  ELSE [server |-> server, requests |-> <<>>, outcome |-> "done"]

DavRmtree(private, execute, path) ==
  LET r == rmtree(dav.server[private], execute, absolute(path))
  IN  /\ dav.count < MaxCommands
      /\ dav' = [Dav([dav.server EXCEPT ![private] = r.server], dav.count + 1)
                   EXCEPT !.cmd = "rmtree", !.private = private, !.execute = execute,
                          !.path = absolute(path), !.before = dav.server[private],
                          !.requests = r.requests, !.outcome = r.outcome]
      /\ UNCHANGED <<environ, last, index, repo, stab, night, conda_bld, calls, base, doc>>

\* scripts/dav.py: upload(), its loop over the local resources
RECURSIVE upload_each(_, _, _, _, _, _)
upload_each(server, execute, local, remote, requests, refused) ==
  IF local = <<>>
  THEN [server |-> server, requests |-> requests, refused |-> refused]
  ELSE LET k == Head(local)
           actual_remote == remote \o k.name
       IN  IF check(server, actual_remote)
           THEN upload_each(server, execute, Tail(local), remote, requests,
                            Append(refused, k))                      \* continue
           ELSE IF execute
           THEN upload_each(upload_to(server, actual_remote), execute, Tail(local),
                            remote,
                            Append(requests,
                                   [op |-> IF k.isdir THEN "upload_directory"
                                           ELSE "upload_file",
                                    path |-> actual_remote]),
                            refused)
           ELSE upload_each(server, execute, Tail(local), remote, requests, refused)

\* scripts/dav.py: upload()
DavUpload(private, execute, local, remote) ==
  LET path == absolute(remote)
      server == dav.server[private]
      r == upload_each(server, execute, local, path, <<>>, <<>>)
      begun == [Dav(dav.server, dav.count + 1)
                  EXCEPT !.cmd = "upload", !.private = private, !.execute = execute,
                         !.path = path, !.local = local, !.before = server]
  IN  /\ dav.count < MaxCommands
      /\ \/ /\ ~check(server, path)                                  \* return 1
            /\ dav' = [begun EXCEPT !.outcome = "returned 1"]
         \/ /\ check(server, path)
            /\ dav' = [begun EXCEPT !.server = [dav.server EXCEPT ![private] = r.server],
                                    !.requests = r.requests, !.refused = r.refused]
      /\ UNCHANGED <<environ, last, index, repo, stab, night, conda_bld, calls, base, doc>>

(***************************************************************************)
(* The ci build, ci test and docs commands                                 *)
(***************************************************************************)

\* the group the ci commands build for
ci_group(env) ==
  IF env.CI_PROJECT_NAMESPACE \notin {"bob", "beat"} THEN "bob"
  ELSE env.CI_PROJECT_NAMESPACE

\* scripts/ci.py: build(): the build command of scripts/build.py run on the
\* recipe of the project, with the visibility and the stability the environment
\* tells.  accepts_use_local: the build command takes the keyword use_local
CiBuild_never_stable(exists, skip, built, dry_run, accepts_use_local) ==
  LET private == environ.CI_PROJECT_VISIBILITY # "public"
      stable == FALSE
      group == ci_group(environ)
  IN  IF accepts_use_local
      THEN Build(exists, skip, built, "pkg-1.0-py36", None, SERVER, group, private,
                 stable, dry_run, TRUE)
      ELSE /\ last' = [Decision("build", private, stable, SERVER, TRUE, group, None)
                         EXCEPT !.dry_run = dry_run, !.outcome = "TypeError"]
           /\ UNCHANGED <<environ, index, repo, stab, night, conda_bld, calls, base, dav, doc>>

CiBuild(exists, skip, built, dry_run, accepts_use_local) ==
  LET private == environ.CI_PROJECT_VISIBILITY # "public"
      stable == environ.CI_COMMIT_TAG # None
      group == ci_group(environ)
  IN  IF accepts_use_local
      THEN Build(exists, skip, built, "pkg-1.0-py36", None, SERVER, group, private,
                 stable, dry_run, TRUE)
      ELSE /\ last' = [Decision("build", private, stable, SERVER, TRUE, group, None)
                         EXCEPT !.dry_run = dry_run, !.outcome = "TypeError"]
           /\ UNCHANGED <<environ, index, repo, stab, night, conda_bld, calls, base, dav, doc>>

\* scripts/ci.py: test(): the test command of scripts/test.py run on the
\* packages of the project found under conda-bld
CiTest(dry_run, accepts_use_local) ==
  LET private == environ.CI_PROJECT_VISIBILITY # "public"
      stable == environ.CI_COMMIT_TAG # None
      group == ci_group(environ)
  IN  IF accepts_use_local
      THEN /\ last' = [Decision("test", private, stable, SERVER, TRUE, group, None)
                         EXCEPT !.dry_run = dry_run,
                                !.channels = test_channels(None, private, stable,
                                                           SERVER, TRUE, group),
                                !.outcome = IF dry_run THEN "dry-run" ELSE "tested"]
           /\ UNCHANGED <<environ, index, repo, stab, night, conda_bld, calls, base, dav, doc>>
      ELSE /\ last' = [Decision("test", private, stable, SERVER, TRUE, group, None)
                         EXCEPT !.dry_run = dry_run, !.outcome = "TypeError"]
           /\ UNCHANGED <<environ, index, repo, stab, night, conda_bld, calls, base, dav, doc>>

\* the packages the requirements file of the docs command lists
DocPackages == <<"bob.a", "bob.b">>

\* a run of the docs command.  cloned: the packages with a clone under doc/;
\* effects: what the command did to the repositories and to its files, in order
DocsRun(packages, cloned, doc_path, dry_run) ==
  [pc |-> "loop", packages |-> packages, cloned |-> cloned, doc_path |-> doc_path,
   dry_run |-> dry_run, effects |-> <<>>, error |-> None]

NoDocs == [DocsRun(<<>>, {}, FALSE, FALSE) EXCEPT !.pc = "none"]

\* scripts/ci.py: docs(), its loop over the packages
RECURSIVE docs_each(_, _, _, _, _)
docs_each(packages, cloned, doc_path, dry_run, effects) ==
  IF packages = <<>> THEN [cloned |-> cloned, doc_path |-> doc_path, effects |-> effects]
  ELSE LET package == Head(packages)
           made == IF doc_path THEN effects
                   ELSE Append(effects, [op |-> "makedirs", package |-> package])
       IN  IF dry_run
           THEN docs_each(Tail(packages), cloned, TRUE, dry_run, made)
           ELSE IF package \in cloned
           THEN docs_each(Tail(packages), cloned, TRUE, dry_run,
                          Append(made, [op |-> "pull", package |-> package]))
           ELSE docs_each(Tail(packages), cloned \cup {package}, TRUE, dry_run,
                          Append(made, [op |-> "clone", package |-> package]))

\* scripts/ci.py: docs(), up to its call of the ci build command.  fetched: git
\* answers
Docs(fetched) ==
  /\ doc.pc = "loop"
  /\ LET r == docs_each(doc.packages, doc.cloned, doc.doc_path, doc.dry_run, <<>>)
         written == IF doc.dry_run THEN r.effects
                    ELSE r.effects \o
                           <<[op |-> "write", package |-> "extra-intersphinx.txt"],
                             [op |-> "write", package |-> "nitpick-exceptions.txt"]>>
     IN  \/ /\ doc.dry_run \/ fetched
            /\ doc' = [doc EXCEPT !.pc = "build", !.cloned = r.cloned,
                                  !.doc_path = r.doc_path, !.effects = written]
         \/ /\ ~doc.dry_run /\ ~fetched                     \* git raises
            /\ doc' = [doc EXCEPT !.pc = "failed", !.doc_path = TRUE,
                                  !.error = "GitCommandError"]
  /\ UNCHANGED <<environ, last, index, repo, stab, night, conda_bld, calls, base, dav>>

(***************************************************************************)
(* Specifications                                                          *)
(***************************************************************************)

Environments ==
  [CI_PROJECT_VISIBILITY : Visibilities, CI_COMMIT_TAG : {None, "v1.0.0"}]

EmptyIndex == [c \in UploadChannels |-> {}]

\* no run of the nightlies command
NoRun == [Run(<<>>, FALSE, FALSE, FALSE) EXCEPT !.pc = "none"]

\* the environment of a deploy job
DeployEnvironments ==
  [CI_PROJECT_VISIBILITY : Visibilities, CI_COMMIT_TAG : {None, "v1.0.0"},
   CI_COMMIT_REF_NAME : {"master", "develop", "v1.0.0"}, CI_PROJECT_PATH : Names]

EmptyRepo == [parents |-> [c \in Commits |-> {}], master |-> 1, tagged |-> 1]

\* how a run of the build command may go
Scenarios ==
  {[exists |-> FALSE, skip |-> FALSE, built |-> FALSE, dry_run |-> FALSE],
   [exists |-> TRUE,  skip |-> TRUE,  built |-> FALSE, dry_run |-> FALSE],
   [exists |-> TRUE,  skip |-> FALSE, built |-> FALSE, dry_run |-> TRUE],
   [exists |-> TRUE,  skip |-> FALSE, built |-> FALSE, dry_run |-> FALSE],
   [exists |-> TRUE,  skip |-> FALSE, built |-> TRUE,  dry_run |-> FALSE]}

InitChannels ==
  /\ environ \in Environments
  /\ last = NoDecision
  /\ index = EmptyIndex
  /\ repo = EmptyRepo
  /\ stab = NoCall
  /\ night = NoRun
  /\ conda_bld = EmptyCondaBld
  /\ calls = <<>>
  /\ base = NoBase
  /\ dav = NoDav
  /\ doc = NoDocs

NextChannels ==
  \/ GetLocalChannels
  \/ \E mode \in {"build", "local", "beta", "stable"} : BootstrapMain(mode)
  \/ \E condarc \in CondarcOptions, server \in Servers, group \in Groups,
        private, stable, ci \in BOOLEAN :
       Test(condarc, server, group, private, stable, ci)
  \/ \E sc \in Scenarios, condarc \in {None, "forge"}, server \in Servers,
        group \in Groups, private, stable, ci \in BOOLEAN :
       Build(sc.exists, sc.skip, sc.built, "pkg-1.0-py36", condarc, server, group,
             private, stable, sc.dry_run, ci)

SpecChannels == InitChannels /\ [][NextChannels]_vars

InitAlloc ==
  /\ environ \in {e \in Environments : e.CI_PROJECT_VISIBILITY # "internal"}
  /\ last = NoDecision
  /\ index = EmptyIndex
  /\ repo = EmptyRepo
  /\ stab = NoCall
  /\ night = NoRun
  /\ conda_bld = EmptyCondaBld
  /\ calls = <<>>
  /\ base = NoBase
  /\ dav = NoDav
  /\ doc = NoDocs

\* the build command is given the visibility of the project, as the ci commands
\* give it, and either stability
NextAlloc ==
  \/ \E sc \in {x \in Scenarios : x.exists /\ ~x.skip /\ (x.dry_run \/ x.built)},
        stable \in BOOLEAN, prefix \in Prefixes :
       Build(sc.exists, sc.skip, sc.built, prefix, None, SERVER, "bob",
             environ.CI_PROJECT_VISIBILITY # "public", stable, sc.dry_run, TRUE)
  \/ \E sc \in {x \in Scenarios : ~x.exists \/ x.skip} :
       Build(sc.exists, sc.skip, sc.built, "pkg-1.0-py36", None, SERVER, "bob",
             environ.CI_PROJECT_VISIBILITY # "public", environ.CI_COMMIT_TAG # None,
             sc.dry_run, TRUE)
  \/ \E found \in Artifacts, dry_run \in BOOLEAN : Deploy(found, dry_run)

SpecAlloc == InitAlloc /\ [][NextAlloc]_vars

InitStability ==
  /\ environ = [CI_PROJECT_VISIBILITY |-> "public", CI_COMMIT_TAG |-> None]
  /\ last = NoDecision
  /\ index = EmptyIndex
  /\ repo \in Repos
  /\ stab \in {Arguments(refname, tag) : refname \in RefNames, tag \in Tags \cup {NoTag}}
  /\ night = NoRun
  /\ conda_bld = EmptyCondaBld
  /\ calls = <<>>
  /\ base = NoBase
  /\ dav = NoDav
  /\ doc = NoDocs

NextStability ==
  \/ IsMaster
  \/ IsStable("bob/pkg")

SpecStability == InitStability /\ [][NextStability]_vars

InitDeploy ==
  /\ environ \in DeployEnvironments
  /\ last = NoDecision
  /\ index = EmptyIndex
  /\ repo = EmptyRepo
  /\ stab = NoCall
  /\ night = NoRun
  /\ conda_bld \in CondaBlds
  /\ calls = <<>>
  /\ base = NoBase
  /\ dav = NoDav
  /\ doc = NoDocs

NextDeploy ==
  \/ \E dry_run \in BOOLEAN : BaseDeploy(dry_run)
  \/ \E latest, dry_run \in BOOLEAN : CiDeploy(latest, dry_run)
  \/ \E package \in Dists, dry_run \in BOOLEAN : PyPI(package, dry_run)

SpecDeploy == InitDeploy /\ [][NextDeploy]_vars

\* the environment of a nightlies job
NightliesEnvironments ==
  [CI_PROJECT_VISIBILITY : {"public"}, CI_COMMIT_TAG : {None},
   CI_COMMIT_REF_NAME : {"master", "develop"}, CI_PROJECT_PATH : {<<"p">>},
   STABLE : {None, "true"}, BDT_BUILD : {<<>>}]

\* what the channels hold of the first package when the first run starts
Published ==
  LET a(n) == [prefix |-> RecipePrefixes[1], build |-> n]
  IN  {EmptyIndex,
       [EmptyIndex EXCEPT ![public_beta(SERVER)] = {a(0), a(2)}],
       [EmptyIndex EXCEPT ![public_beta(SERVER)] = {a(0)},
                          ![private_beta(SERVER)] = {a(0), a(2)}]}

InitNightlies ==
  /\ environ \in NightliesEnvironments
  /\ last = NoDecision
  /\ index \in Published
  /\ repo = EmptyRepo
  /\ stab = NoCall
  /\ night \in {Run(Order, dry_run, accepts_use_local, sphinx) :
                  dry_run \in BOOLEAN, accepts_use_local \in BOOLEAN, sphinx \in BOOLEAN}
  /\ conda_bld = EmptyCondaBld
  /\ calls = <<>>
  /\ base = NoBase
  /\ dav = NoDav
  /\ doc = NoDocs

\* how the build of a package may go
NightliesScenarios ==
  {[answer |-> "none", exists |-> TRUE, skip |-> FALSE, built |-> TRUE, sphinx |-> FALSE],
   [answer |-> "error", exists |-> TRUE, skip |-> FALSE, built |-> TRUE, sphinx |-> FALSE],
   [answer |-> "page", exists |-> FALSE, skip |-> FALSE, built |-> TRUE, sphinx |-> FALSE],
   [answer |-> "page", exists |-> TRUE, skip |-> TRUE, built |-> TRUE, sphinx |-> FALSE],
   [answer |-> "page", exists |-> TRUE, skip |-> FALSE, built |-> FALSE, sphinx |-> TRUE],
   [answer |-> "page", exists |-> TRUE, skip |-> FALSE, built |-> TRUE, sphinx |-> FALSE],
   [answer |-> "page", exists |-> TRUE, skip |-> FALSE, built |-> TRUE, sphinx |-> TRUE]}

NextNightlies ==
  \/ NightliesClone
  \/ \E sc \in NightliesScenarios :
       NightliesBuild(sc.answer, sc.exists, sc.skip, sc.built, sc.sphinx)
  \/ \E served \in BOOLEAN : NightliesDeploy(served)
  \/ NightliesCleanup

SpecNightlies == InitNightlies /\ [][NextNightlies]_vars

\* the nightlies command, night after night
NextRuns ==
  \/ NextNightlies
  \/ \E env \in NightliesEnvironments, dry_run \in BOOLEAN : NightliesStart(env, dry_run)

SpecRuns == InitNightlies /\ [][NextRuns]_vars

\* the commands of the ci group that deploy: a job runs deploy, base-deploy and
\* pypi on what it finds under conda-bld, or it runs nightlies
InitCi == InitDeploy \/ InitNightlies

NextCi == NextDeploy \/ NextNightlies

SpecCi == InitCi /\ [][NextCi]_vars

\* the environment of a job of the ci build, ci test and ci deploy commands
ReleaseEnvironments ==
  [CI_PROJECT_VISIBILITY : {"public", "private"},
   CI_COMMIT_TAG : {None, "v1.0.0", "v1.0rc1"},
   CI_COMMIT_REF_NAME : {"master", "develop"},
   CI_PROJECT_NAMESPACE : {"bob", "other"}]

\* the characters of the tags of the jobs
TagText(tag) ==
  CASE tag = None -> NoTag
    [] tag = "v1.0.0" -> <<"v", "1", ".", "0", ".", "0">>
    [] tag = "v1.0rc1" -> <<"v", "1", ".", "0", "r", "c", "1">>

\* the repositories of the jobs: master is at commit 2, whose parent is commit
\* 1, and the tag is on commit 1 or on a commit that master does not have
ReleaseRepos ==
  {r \in Repos : /\ r.parents = [c \in Commits |-> IF c = 1 THEN {} ELSE {1}]
                 /\ r.master = 2
                 /\ r.tagged \in {1, 3}}

InitRelease ==
  /\ environ \in ReleaseEnvironments
  /\ last = NoDecision
  /\ index = EmptyIndex
  /\ repo \in ReleaseRepos
  /\ stab = NoCall
  /\ night = NoRun
  /\ conda_bld = EmptyCondaBld
  /\ calls = <<>>
  /\ base = NoBase
  /\ dav = NoDav
  /\ doc = NoDocs

\* the artifacts the deploy command finds under conda-bld
Found == {a \in Artifacts : a.prefix = "pkg-1.0-py36" /\ a.build <= 1}

NextRelease ==
  \/ \E sc \in Scenarios, accepts_use_local \in BOOLEAN :
       CiBuild(sc.exists, sc.skip, sc.built, sc.dry_run, accepts_use_local)
  \/ \E dry_run, accepts_use_local \in BOOLEAN : CiTest(dry_run, accepts_use_local)
  \/ \E found \in Found, dry_run \in BOOLEAN : Deploy(found, dry_run)

SpecRelease == InitRelease /\ [][NextRelease]_vars

\* a job of the ci build, ci test and ci deploy commands, or a run of nightlies
InitPairs == InitRelease \/ InitNightlies

NextPairs ==
  \/ night.pc = "none" /\ NextRelease
  \/ NextNightlies

SpecPairs == InitPairs /\ [][NextPairs]_vars

\* the nightlies command, which runs each step it comes to
SpecNightliesLive == InitNightlies /\ [][NextNightlies]_vars /\ WF_vars(NextNightlies)

\* the environment of a nightlies job that may have BDT_BUILD set from outside
InheritedEnvironments ==
  [CI_PROJECT_VISIBILITY : {"public"}, CI_COMMIT_TAG : {None},
   CI_COMMIT_REF_NAME : {"master", "develop"}, CI_PROJECT_PATH : {<<"p">>},
   STABLE : {None, "true"},
   BDT_BUILD : {<<>>, <<[prefix |-> RecipePrefixes[1], build |-> 0]>>}]

InitInherited ==
  /\ environ \in InheritedEnvironments
  /\ last = NoDecision
  /\ index = EmptyIndex
  /\ repo = EmptyRepo
  /\ stab = NoCall
  /\ night \in {Run(Order, dry_run, accepts_use_local, sphinx) :
                  dry_run \in BOOLEAN, accepts_use_local \in BOOLEAN, sphinx \in BOOLEAN}
  /\ conda_bld = EmptyCondaBld
  /\ calls = <<>>
  /\ base = NoBase
  /\ dav = NoDav
  /\ doc = NoDocs

SpecInherited == InitInherited /\ [][NextNightlies]_vars

InitBase ==
  /\ environ \in {e \in Environments : e.CI_PROJECT_VISIBILITY = "public"}
  /\ last = NoDecision
  /\ index = EmptyIndex
  /\ repo = EmptyRepo
  /\ stab = NoCall
  /\ night = NoRun
  /\ conda_bld = EmptyCondaBld
  /\ calls = <<>>
  /\ base \in {BaseRun(order, python, meta, dry_run) :
                 order \in OrderFiles, python \in PythonOptions,
                 meta \in MetaOptions, dry_run \in BOOLEAN}
  /\ dav = NoDav
  /\ doc = NoDocs

NextBase ==
  \/ BaseBuildLoad
  \/ \E ok \in BOOLEAN : BaseBuildPair(ok)

SpecBase == InitBase /\ [][NextBase]_vars

InitDav ==
  /\ environ \in {e \in Environments : e.CI_PROJECT_VISIBILITY = "public"}
  /\ last = NoDecision
  /\ index = EmptyIndex
  /\ repo = EmptyRepo
  /\ stab = NoCall
  /\ night = NoRun
  /\ conda_bld = EmptyCondaBld
  /\ calls = <<>>
  /\ base = NoBase
  /\ dav \in {Dav([private \in BOOLEAN |-> IF private THEN {<<>>, << <<"f">> >>} ELSE a], 0) :
                a \in DavAreas}
  /\ doc = NoDocs

NextDav ==
  \/ \E private, execute \in BOOLEAN, path \in RmtreePaths :
       DavRmtree(private, execute, path)
  \/ \E private, execute \in BOOLEAN, local \in LocalResources, remote \in UploadRemotes :
       DavUpload(private, execute, local, remote)

SpecDav == InitDav /\ [][NextDav]_vars

InitDocs ==
  /\ environ \in ReleaseEnvironments
  /\ last = NoDecision
  /\ index = EmptyIndex
  /\ repo = EmptyRepo
  /\ stab = NoCall
  /\ night = NoRun
  /\ conda_bld = EmptyCondaBld
  /\ calls = <<>>
  /\ base = NoBase
  /\ dav = NoDav
  /\ doc \in {DocsRun(DocPackages, cloned, doc_path, dry_run) :
                cloned \in SUBSET Range(DocPackages), doc_path \in BOOLEAN,
                dry_run \in BOOLEAN}

\* the docs command ends with the ci build command, in the mode it was given
NextDocs ==
  \/ \E fetched \in BOOLEAN : Docs(fetched)
  \/ /\ doc.pc = "build"
     /\ \E sc \in {x \in Scenarios : x.dry_run = doc.dry_run},
           accepts_use_local \in BOOLEAN :
          CiBuild(sc.exists, sc.skip, sc.built, sc.dry_run, accepts_use_local)

\* the commands that take --dry-run: a job runs nightlies, base-build, docs, or
\* the ci build, ci test and ci deploy commands
InitDryRun == InitNightlies \/ InitBase \/ InitDocs \/ InitRelease

NextDryRun ==
  \/ NextNightlies
  \/ NextBase
  \/ NextDocs
  \/ night.pc = "none" /\ base.pc = "none" /\ doc.pc = "none" /\ NextRelease

SpecDryRun == InitDryRun /\ [][NextDryRun]_vars

(***************************************************************************)
(* Properties                                                              *)
(***************************************************************************)

IsBeta(channel) == EndsWith(channel, <<"conda", "label", "beta">>)
IsRoot(channel) == EndsWith(channel, <<"conda">>)
IsPrivate(channel) == Len(channel) >= 2 /\ channel[2] = "private"
IsPublic(channel) == Len(channel) >= 2 /\ channel[2] = "public"

EnvPrivate == environ.CI_PROJECT_VISIBILITY # "public"
EnvStable == environ.CI_COMMIT_TAG # None

\* the path of the upload channel of each (private, stable) pair
UploadPath(private, stable) ==
  CASE private /\ ~stable  -> <<"private", "conda", "label", "beta">>
    [] private /\ stable   -> <<"private", "conda">>
    [] ~private /\ ~stable -> <<"public", "conda", "label", "beta">>
    [] ~private /\ stable  -> <<"public", "conda">>

\* C1: the list get_local_channels() resolves holds a channel ending in
\* /conda/label/beta exactly when the build is not stable, and then it holds the
\* public beta channel
C1_BetaIffPrerelease ==
  last.cmd = "get_local_channels" =>
    /\ (\E c \in Range(last.channels) : IsBeta(c)) <=> ~EnvStable
    /\ ~EnvStable => <<"http://www.idiap.ch", "public", "conda", "label", "beta">>
                       \in Range(last.channels)

C1_Witness ==
  /\ last.cmd = "get_local_channels"
  /\ ~EnvStable
  /\ \E c \in Range(last.channels) : IsBeta(c) /\ IsPublic(c)

\* C2: the upload channel of the build command is one URL, on the server the
\* channels are resolved for, and its path is the one of the four fixed paths
\* that (private, stable) selects
C2_UploadChannelByPair ==
  last.cmd = "build" =>
    /\ last.upload_channel # <<>>
    /\ Head(last.upload_channel) \in Servers
    /\ Tail(last.upload_channel) = UploadPath(last.private, last.stable)

C2_Witness ==
  /\ last.cmd = "build"
  /\ last.private /\ last.stable
  /\ Tail(last.upload_channel) = <<"private", "conda">>

\* C3: the upload channel of the build command is one of the channels the
\* command reads, and when the command is given the visibility and stability of
\* the environment it is one of the channels get_local_channels() resolves
C3_UploadAmongReadChannels ==
  last.cmd = "build" =>
    /\ last.upload_channel \in Range(last.channels)
    /\ (/\ last.private = EnvPrivate /\ last.stable = EnvStable
        /\ last.server = "http://www.idiap.ch" /\ last.intranet)
       => last.upload_channel \in Range(get_local_channels(environ))

C3_Witness ==
  /\ last.cmd = "build"
  /\ last.private = EnvPrivate /\ last.stable = EnvStable
  /\ last.private /\ ~last.stable
  /\ last.server = "http://www.idiap.ch" /\ last.intranet
  /\ last.upload_channel \in Range(get_local_channels(environ))

HandsDefaultsLast(channels) ==
  /\ channels # <<>>
  /\ \E c \in Range(channels) : IsPublic(c) /\ IsRoot(c) /\ ~IsBeta(c)
  /\ channels[Len(channels)] = defaults

\* C4 as stated: whatever the arguments of the test command, the channel list it
\* hands to the builder is not empty, holds the public root channel and ends with
\* the channel defaults
C4_Original ==
  last.cmd = "test" => HandsDefaultsLast(last.channels)

\* C4: when the test command is given no conda configuration file of the user's
\* (--condarc), the channel list it hands to the builder is not empty, holds the
\* public root channel and ends with the channel defaults
C4_DefaultsLastWithoutCondarc ==
  (last.cmd = "test" /\ last.condarc = None) => HandsDefaultsLast(last.channels)

C4_Witness ==
  /\ last.cmd = "test" /\ last.condarc = None
  /\ last.private /\ ~last.stable /\ ~last.intranet
  /\ Len(last.channels) > 4

\* C5: get_local_channels() lists private channels exactly when the project is
\* not public; every private channel comes before every public one, within a
\* visibility the beta channel comes before the root channel, and the private
\* root channel is listed for a private project, stable or not
C5_PrivateFirstBetaFirst ==
  last.cmd = "get_local_channels" =>
    LET l == last.channels
    IN  /\ (\E c \in Range(l) : IsPrivate(c)) <=> EnvPrivate
        /\ \A i, j \in 1..Len(l) : (IsPrivate(l[i]) /\ IsPublic(l[j])) => i < j
        /\ \A i, j \in 1..Len(l) :
             (/\ IsPrivate(l[i]) <=> IsPrivate(l[j])
              /\ IsBeta(l[i]) /\ ~IsBeta(l[j])) => i < j
        /\ EnvPrivate => <<"http://www.idiap.ch", "private", "conda">> \in Range(l)

C5_Witness ==
  /\ last.cmd = "get_local_channels"
  /\ EnvPrivate /\ ~EnvStable
  /\ Len(last.channels) = 4
  /\ IsPrivate(last.channels[1]) /\ IsBeta(last.channels[1])

\* the components LooseVersion parses from a tag without its first character
ParsedTag(tag) == LooseVersion(Tail(tag))

HasTextComponent(tag) ==
  /\ ParsedTag(tag).parsed
  /\ \E k \in 1..Len(ParsedTag(tag).version) : ParsedTag(tag).version[k].type = "str"

\* the commits of the history of master: master's head and all its ancestors
RECURSIVE Ancestors(_, _)
Ancestors(parents, S) ==
  LET T == S \cup UNION {parents[c] : c \in S}
  IN  IF T = S THEN S ELSE Ancestors(parents, T)

TagOnMaster == repo.tagged \in Ancestors(repo.parents, {repo.master})

\* C6: for a tag whose parsed version has a component that is not a number,
\* is_stable returns False without calling is_master, whatever the branch name
\* and wherever the tag's commit lies
C6_PrereleaseTagNotStable ==
  (stab.fn = "is_stable" /\ stab.tag # NoTag /\ HasTextComponent(stab.tag)) =>
    /\ stab.error = None
    /\ stab.ret = FALSE
    /\ ~stab.called_is_master

C6_Witness ==
  /\ stab.fn = "is_stable"
  /\ stab.tag = <<"v", "1", "v">>
  /\ stab.refname = "master" /\ TagOnMaster
  /\ stab.ret = FALSE /\ ~stab.called_is_master

C8_IsMaster ==
  stab.fn = "is_master" =>
    IF stab.tag # NoTag THEN stab.ret = TagOnMaster
    ELSE stab.ret = (stab.refname = "master")

C8_Witness ==
  /\ stab.fn = "is_master"
  /\ stab.tag # NoTag
  /\ stab.refname = "master"
  /\ repo.tagged # repo.master
  /\ ~stab.ret

\* the artifacts of the allocation's prefix on the upload channel of its pair
Matching ==
  {a \in index[<<SERVER>> \o UploadPath(last.private, last.stable)] :
     a.prefix = last.prefix}

\* C9: the build number allocated is 0 when the upload channel holds no artifact
\* of the candidate's prefix, and otherwise one more than the largest build
\* number of those it holds, so larger than each of them
C9_NextBuildNumber ==
  (last.cmd = "build" /\ last.allocated) =>
    /\ Matching = {} => last.build_number = 0
    /\ Matching # {} =>
         \E a \in Matching : /\ last.build_number = a.build + 1
                             /\ \A b \in Matching : b.build <= a.build
    /\ \A a \in Matching : last.build_number > a.build

C9_Witness ==
  /\ last.cmd = "build" /\ last.allocated
  /\ {a.build : a \in Matching} = {0, 1, 3}
  /\ last.build_number = 4

\* C10: a build command that follows a build command for the same upload channel
\* and prefix, with nothing uploaded between them, allocates the same build
\* number, and no build command changes what the channels hold
C10_AllocatorIdempotent ==
  [][/\ last'.cmd = "build" => index' = index
     /\ (/\ last.cmd = "build" /\ last.allocated
         /\ last'.cmd = "build" /\ last'.allocated
         /\ last'.upload_channel = last.upload_channel
         /\ last'.prefix = last.prefix)
        => last'.build_number = last.build_number]_vars

C10_Witness ==
  /\ last.cmd = "build" /\ last.allocated
  /\ last.again
  /\ last.build_number = 2 /\ last.previous = 2
  /\ last.outcome = "built"

\* the calls of the last command that deploy the documentation
IsDocs(k) == k.what = "docs"

\* C12: the documentation is deployed to the four segments branch, tag, stable
\* and master when stable and latest are both true, to the two segments branch
\* and tag when stable is true and latest false, and to the one segment branch
\* when stable is false, whatever latest is
C12_DocDestinations ==
  \A i \in 1..Len(calls) :
    IsDocs(calls[i]) =>
      LET k == calls[i]
          branch == environ.CI_COMMIT_REF_NAME
          tag == environ.CI_COMMIT_TAG
      IN  IF k.stable /\ k.latest
          THEN /\ Len(k.segments) = 4
               /\ Range(k.segments) = {branch, tag, "stable", "master"}
          ELSE IF k.stable
          THEN /\ Len(k.segments) = 2
               /\ Range(k.segments) = {branch, tag}
          ELSE /\ Len(k.segments) = 1
               /\ Range(k.segments) = {branch}

C12_Witness ==
  \E i \in 1..Len(calls) :
    /\ IsDocs(calls[i])
    /\ calls[i].stable /\ ~calls[i].latest /\ ~calls[i].dry_run
    /\ calls[i].segments = <<"develop", "v1.0.0">>

\* the files of conda-bld/arch whose name does not start with the project's name
OtherFiles(arch) ==
  {f \in conda_bld[arch] : ~StartsWith(f, environ.CI_PROJECT_PATH)}

\* C14: base-deploy issues no deployment of a file whose name starts with the
\* project's name; every deployment it issues is of another file found in an
\* architecture directory, to the public root channel under that architecture;
\* and unless a deployment is refused, which ends the command, every such file
\* of every architecture directory is deployed
C14_BaseDeployOthersOnly ==
  last.cmd = "base-deploy" =>
    /\ \A i \in 1..Len(calls) :
         /\ ~StartsWith(calls[i].package, environ.CI_PROJECT_PATH)
         /\ calls[i].arch \in Range(Archs)
         /\ calls[i].package \in OtherFiles(calls[i].arch)
         /\ calls[i].stable /\ calls[i].public
         /\ calls[i].outcome = "uploaded" =>
              [arch |-> calls[i].arch, file |-> calls[i].package]
                \in index[public_root(SERVER)]
    /\ last.outcome = "done" =>
         \A arch \in Range(Archs) : \A f \in OtherFiles(arch) :
           \E i \in 1..Len(calls) : calls[i].package = f /\ calls[i].arch = arch

C14_Witness ==
  /\ last.cmd = "base-deploy" /\ last.outcome = "done" /\ ~last.dry_run
  /\ environ.CI_PROJECT_PATH = <<"p">>
  /\ conda_bld["osx-64"] = {<<"p", "q", "-", "1">>, <<"z", "-", "1">>}
  /\ Len(calls) = 1
  /\ calls[1].package = <<"z", "-", "1">> /\ calls[1].arch = "osx-64"
  /\ calls[1].outcome = "uploaded"

\* C20: the pypi command of a project that is not public raises before any
\* upload, in a dry run as in a real one, and in a dry run it uploads nothing
\* for a public project either
C20_PyPIPublicOnly ==
  last.cmd = "pypi" =>
    /\ environ.CI_PROJECT_VISIBILITY # "public" =>
         (calls = <<>> /\ last.outcome = "RuntimeError")
    /\ last.dry_run => calls = <<>>
    /\ \A i \in 1..Len(calls) : calls[i].what = "pypi" /\ calls[i].public

C20_Witness ==
  /\ last.cmd = "pypi" /\ ~last.dry_run
  /\ environ.CI_PROJECT_VISIBILITY = "internal"
  /\ last.outcome = "RuntimeError" /\ calls = <<>>

IsConda(k) == k.what = "conda"

\* C13: every deployment of a conda package the deploy, base-deploy and
\* nightlies commands issue has overwrite false, none replaces a file the
\* channel holds, and what a channel holds stays on it
C13_NeverOverwrite ==
  [][/\ \A i \in 1..Len(calls') :
          IsConda(calls'[i]) =>
            /\ calls'[i].cmd \in {"deploy", "base-deploy", "nightlies"}
            /\ calls'[i].overwrite = FALSE
            /\ calls'[i].outcome # "replaced"
     /\ \A c \in UploadChannels : index[c] \subseteq index'[c]]_vars

C13_Witness ==
  /\ last.cmd = "deploy" /\ last.outcome = "RuntimeError"
  /\ Len(calls) = 1
  /\ IsConda(calls[1]) /\ ~calls[1].overwrite /\ calls[1].outcome = "AlreadyExists"
  /\ remote_path(calls[1].package, calls[1].arch) \in index[last.upload_channel]

\* C15: an error in a step of a package ends the run in failure: it is the only
\* error of the run, it was raised by the last step begun, and no step of a later
\* package is begun
C15_FailureEndsRun ==
  \A i \in 1..Len(night.errors) :
    LET e == night.errors[i]
    IN  /\ night.pc = "failed"
        /\ Len(night.errors) = 1
        /\ night.n = e.n
        /\ night.steps[Len(night.steps)] = [n |-> e.n, step |-> e.step]
        /\ \A j \in 1..Len(night.steps) : night.steps[j].n <= e.n

C15_Witness ==
  /\ night.pc = "failed"
  /\ Len(night.packages) >= 2
  /\ night.errors = <<[n |-> 1, step |-> "build", error |-> "BuildError"]>>
  /\ night.steps = <<[n |-> 1, step |-> "clone"], [n |-> 1, step |-> "build"]>>

\* the error of iteration n, if it raised one
ErrorsOf(n) == {night.errors[i].error : i \in {j \in 1..Len(night.errors) : night.errors[j].n = n}}

C18_DeployIffBuiltOnMaster ==
  [][/\ night.pc = "deploy" =>
          LET produced == night.built[night.n] # <<>>
              master == environ.CI_COMMIT_REF_NAME = "master"
          IN  /\ Len(calls') \in {Len(calls), Len(calls) + 1}
              /\ (Len(calls') = Len(calls) + 1) <=> (produced /\ master)
              /\ Len(calls') = Len(calls) + 1 =>
                   /\ calls'[Len(calls')].package = night.built[night.n][1]
                   /\ calls'[Len(calls')].n = night.n
     /\ night.pc # "deploy" => calls' = calls
     /\ \A i, j \in 1..Len(calls') :
          i # j => /\ calls'[i].n # calls'[j].n
                   /\ calls'[i].package # calls'[j].package]_vars

C18_Witness ==
  /\ night.pc = "done"
  /\ environ.CI_COMMIT_REF_NAME = "master"
  /\ Len(night.built) = 2 /\ night.built[1] = <<>> /\ night.built[2] # <<>>
  /\ Len(calls) = 1
  /\ calls[1].n = 2 /\ calls[1].package = night.built[2][1]
  /\ calls[1].outcome = "uploaded"

\* C19: when the iteration of a package is over, the directory sphinx is not
\* there: not when the next package begins, and not when the run is done
C19_DocsRemoved ==
  (night.pc \in {"clone", "done"} /\ night.steps # <<>>) => ~night.sphinx

C19_Witness ==
  /\ night.pc = "clone" /\ night.n = 2
  /\ 1 \in night.docs
  /\ ~night.sphinx

\* the lines of an order file, each from the character it starts at
LineStarts(text) == {s \in 1..Len(text) : s = 1 \/ text[s - 1] = "\n"}

\* the line that starts at s, up to its end of line or its first '#'
LineBody(text, s) ==
  LET stops == {i \in s..Len(text) : text[i] \in {"\n", "#"}}
      stop == IF stops = {} THEN Len(text) + 1
              ELSE CHOOSE i \in stops : \A j \in stops : i <= j
  IN  SubSeq(text, s, stop - 1)

\* the characters of a line's body that are not blank
Inked(body) == {i \in 1..Len(body) : body[i] # " "}

\* the body from its first to its last character that is not blank
Entry(body) ==
  SubSeq(body, CHOOSE i \in Inked(body) : \A j \in Inked(body) : i <= j,
               CHOOSE i \in Inked(body) : \A j \in Inked(body) : i >= j)

\* the lines that hold an entry
EntryLines(text) == {s \in LineStarts(text) : Inked(LineBody(text, s)) # {}}

\* entries holds, in the order of the lines, what each line of text has before
\* its first '#', without the blanks around it, for the lines where that is
\* not empty
ReadsInOrder(text, entries) ==
  /\ Len(entries) = Cardinality(EntryLines(text))
  /\ \A s \in EntryLines(text) :
       entries[Cardinality({t \in EntryLines(text) : t <= s})] = Entry(LineBody(text, s))

\* C22: the entries read from an order file are, in the order of its lines, the
\* text each line has before its first '#' without the blanks around it, for
\* the lines where that text is not empty; no entry holds a '#'
C22_OrderFileEntries ==
  base.pc \in {"loop", "done", "failed"} =>
    /\ ReadsInOrder(base.order, base.entries)
    /\ ReadsInOrder(base.order, read_packages(base.order))
    /\ \A j \in 1..Len(base.entries) : "#" \notin Range(base.entries[j])

C22_Witness ==
  /\ base.pc = "done"
  /\ base.order = <<"a", "a", "\n", "a", "#">>
  /\ base.entries = << <<"a", "a">>, <<"a">> >>

\* the values of --python the loop runs over: None when none is given
Pythons == IF base.python = <<>> THEN <<None>> ELSE base.python

\* the pairs the loop has passed
Passed ==
  SubSeq(base.recipes, 1,
         IF base.pc = "done" THEN Len(base.recipes)
         ELSE IF base.pc = "failed" THEN base.i ELSE base.i - 1)

HasMeta(pair) == pair.recipe \in base.meta

\* C29: the loop of base-build runs over the pairs of a python version and a
\* recipe, the versions in the order given and for each the recipes in the
\* order of the file; the builder is called for the pairs passed that have a
\* meta.yaml, once each and in that order, and for no other; a pair without is
\* passed over and the loop goes on; a run that is done has passed every pair
C29_BaseBuildSkipsWithoutMeta ==
  base.pc \in {"loop", "done", "failed"} =>
    /\ Len(base.recipes) = Len(Pythons) * Len(base.entries)
    /\ \A v \in 1..Len(Pythons) : \A e \in 1..Len(base.entries) :
         base.recipes[(v - 1) * Len(base.entries) + e]
           = [pyver |-> Pythons[v], recipe |-> base.entries[e]]
    /\ base.invoked = SelectSeq(Passed, HasMeta)
    /\ base.ignored = SelectSeq(Passed, LAMBDA pair : ~HasMeta(pair))
    /\ base.pc = "failed" => HasMeta(base.recipes[base.i])

C29_Witness ==
  /\ base.pc = "done"
  /\ base.python = <<"3.6", "3.7">>
  /\ base.entries = << <<"a", "a">>, <<"a">> >>
  /\ base.invoked = <<[pyver |-> "3.6", recipe |-> <<"a">>],
                      [pyver |-> "3.7", recipe |-> <<"a">>]>>
  /\ Len(base.ignored) = 2

\* the resource a remote path names
Resource(path) == path_names(path, <<>>)

\* C23 as stated: the upload command asks for no upload to a resource the
\* server holds; a local resource whose name the server holds under the remote
\* location makes the command raise an error; when the remote location is not
\* on the server the command uploads nothing and reports an error; and without
\* --execute no upload is asked for
C23_UploadRefusesExisting ==
  dav.cmd = "upload" =>
    /\ \A i \in 1..Len(dav.requests) : Resource(dav.requests[i].path) \notin dav.before
    /\ dav.refused # <<>> => dav.outcome \notin {"done"}
    /\ Resource(dav.path) \notin dav.before =>
         (dav.requests = <<>> /\ dav.outcome = "returned 1")
    /\ ~dav.execute => dav.requests = <<>>

\* C24: the rmtree command leaves the server as it is unless --execute is
\* given and the remote path is on the server; then it asks for one removal, of
\* that path, which takes the resource and all below it and nothing else; with
\* --execute and a path that is not on the server it asks for nothing
C24_RmtreeOnlyOnExecute ==
  [][dav'.cmd = "rmtree" =>
       LET area == dav'.private
           target == Resource(dav'.path)
       IN  /\ dav'.server[~area] = dav.server[~area]
           /\ (~dav'.execute \/ target \notin dav.server[area]) =>
                (dav'.server = dav.server /\ dav'.requests = <<>>)
           /\ (dav'.execute /\ target \in dav.server[area]) =>
                /\ dav'.requests = <<[op |-> "clean", path |-> dav'.path]>>
                /\ dav'.server[area] =
                     {r \in dav.server[area] : ~IsPrefix(target, r)} \cup {<<>>}]_vars

C24_Witness ==
  /\ dav.cmd = "rmtree" /\ dav.execute /\ ~dav.private
  /\ dav.path = <<"/", "d">>
  /\ dav.before = {<<>>, << <<"d">> >>, << <<"d">>, <<"f">> >>}
  /\ dav.server[FALSE] = {<<>>}
  /\ Len(dav.requests) = 1

\* the run-level stability: STABLE is in the environment
RunStable == environ.STABLE # None

\* C25 as stated: a package whose project page answers with a status other than
\* 200 is built and deployed as private and the run does not end at that
\* request, a package whose page answers with 200 is built and deployed as
\* public, and the stability every build and deployment of the run is given is
\* whether STABLE is in the environment
C25_PrivateIffNot200 ==
  /\ \A n \in 1..Len(night.responses) :
       /\ "HTTPError" \notin ErrorsOf(n)
       /\ n <= Len(night.passed)
       /\ night.passed[n].private = (night.responses[n] # 200)
  /\ \A n \in 1..Len(night.passed) : night.passed[n].stable = RunStable
  /\ \A i \in 1..Len(calls) :
       calls[i].cmd = "nightlies" =>
         /\ calls[i].stable = RunStable
         /\ calls[i].public = ~night.passed[calls[i].n].private

PrereleaseJob ==
  /\ environ.CI_COMMIT_TAG # None
  /\ ~is_stable(<<"bob", "pkg">>, environ.CI_COMMIT_REF_NAME,
                TagText(environ.CI_COMMIT_TAG), repo).ret

\* C26 as stated: ci build, ci test and ci deploy handle a job whose tag has a
\* non-numeric version component, or whose tag is not on master, as a
\* prerelease: the channels built and tested against include the beta channel
\* and the channel uploaded to is the beta channel, never the root channel
C26_PrereleaseTagsGoToBeta ==
  (/\ last.cmd \in {"build", "test", "deploy"}
   /\ last.outcome # "TypeError"
   /\ PrereleaseJob) =>
     /\ ~last.stable
     /\ last.upload_channel # <<>> => IsBeta(last.upload_channel)
     /\ last.channels # <<>> => \E k \in 1..Len(last.channels) : IsBeta(last.channels[k])

\* the names of the steps iteration n began, in the order it began them
StepsOf(n) ==
  LET of_n(s) == s.n = n
      mine == SelectSeq(night.steps, of_n)
  IN  [k \in 1..Len(mine) |-> mine[k].step]

\* the passes of a package through the loop: the deployment is optional
Passes ==
  {<<"clone", "build", "cleanup">>, <<"clone", "build", "deploy", "cleanup">>}

\* the steps begun so far go through the order file from its first entry, one
\* entry after the other, each entry on one of the passes
InFileOrder ==
  /\ \A i, j \in 1..Len(night.steps) : i < j => night.steps[i].n <= night.steps[j].n
  /\ \A i \in 1..Len(night.steps) : night.steps[i].n \in 1..night.n
  /\ \A n \in 1..Len(night.packages) :
       /\ \E pass \in Passes : IsPrefix(StepsOf(n), pass)
       /\ n < night.n => (night.errors = <<>> => StepsOf(n) \in Passes)

\* the run is over: either a step failed, or every entry of the order file has
\* been through one whole pass
Processed ==
  \/ night.pc = "failed" /\ night.errors # <<>>
  \/ /\ night.pc = "done" /\ night.errors = <<>>
     /\ night.n = Len(night.packages)
     /\ \A n \in 1..Len(night.packages) : StepsOf(n) \in Passes

\* C27: a nightlies run in which no step fails comes to its end having taken
\* every entry of the order file once, in file order, through clone, build,
\* deployment if there is one, and cleanup, the cleanup of an entry before the
\* clone of the next; at every moment the steps begun are in that order
C27_RunProcessesEveryEntry == []InFileOrder /\ <>[]Processed

C27_Witness ==
  /\ night.pc = "done" /\ night.errors = <<>>
  /\ Len(night.packages) >= 2
  /\ \E n \in 1..Len(night.packages) : StepsOf(n) = <<"clone", "build", "deploy", "cleanup">>
  /\ \E n \in 1..Len(night.packages) : StepsOf(n) = <<"clone", "build", "cleanup">>

\* the deployments of nightlies go to the channel the build of the same
\* iteration allocated its build number against, with the visibility and the
\* stability that build was given
SamePairInNightlies ==
  \A i \in 1..Len(calls) :
    calls[i].cmd = "nightlies" =>
      /\ \E a \in Range(night.allocated) :
           /\ a.n = calls[i].n
           /\ a.channel = deploy_channel(calls[i].stable, calls[i].public)
      /\ night.passed[calls[i].n].private = ~calls[i].public
      /\ night.passed[calls[i].n].stable = calls[i].stable

\* C30: the visibility and the stability that choose the channel a build
\* allocates its build number against are those that choose the channel the
\* artifact is deployed to: in every iteration of nightlies, and when ci deploy
\* follows ci build in the environment of one job
C30_SamePairForBuildAndDeploy ==
  [][/\ SamePairInNightlies'
     /\ (last.cmd = "build" /\ last.allocated /\ last'.cmd = "deploy") =>
          /\ last'.private = last.private
          /\ last'.stable = last.stable
          /\ last'.upload_channel = last.upload_channel]_vars

C30_Witness ==
  /\ night.pc = "done"
  /\ \E i \in 1..Len(calls) :
       /\ calls[i].cmd = "nightlies" /\ calls[i].outcome = "uploaded"
       /\ ~calls[i].public /\ calls[i].stable
       /\ [n |-> calls[i].n, channel |-> private_root(SERVER)] \in Range(night.allocated)

\* a dry run of nightlies clones nothing, builds nothing, leaves BDT_BUILD
\* unset and uploads nothing
DryNightlies ==
  (night.pc # "none" /\ night.dry_run) =>
    /\ \A j \in 1..Len(night.steps) : night.steps[j].step # "clone"
    /\ \A n \in 1..Len(night.built) : night.built[n] = <<>>
    /\ environ.BDT_BUILD = <<>>
    /\ \A i \in 1..Len(calls) : calls[i].outcome \in {"dry-run", "error"}

\* a dry run of base-build does not invoke the builder
DryBaseBuild ==
  (base.pc # "none" /\ base.dry_run) => base.invoked = <<>>

\* a dry run of docs neither clones nor pulls nor writes its files
DryDocs ==
  (doc.pc # "none" /\ doc.dry_run) =>
    \A j \in 1..Len(doc.effects) : doc.effects[j].op \notin {"clone", "pull", "write"}

\* a dry run of build, test or deploy builds, tests and uploads nothing and
\* leaves BDT_BUILD unset, and a dry run of build that comes to a recipe to
\* build has resolved its channels and allocated its build number
DryCommand ==
  last.dry_run =>
    /\ last.outcome \notin {"built", "BuildError", "tested", "uploaded", "AlreadyExists"}
    /\ last.BDT_BUILD = <<>>
    /\ (last.cmd = "build" /\ last.outcome = "dry-run") =>
         /\ last.allocated
         /\ last.channels # <<>> /\ last.upload_channel # <<>>

\* C21 as stated: in dry-run mode no command invokes the builder, uploads,
\* deletes, clones or pulls a repository, or sets BDT_BUILD, while channels and
\* build numbers are computed as in a real run
C21_DryRunHasNoSideEffects ==
  /\ DryNightlies
  /\ DryBaseBuild
  /\ DryDocs
  /\ DryCommand

====
